---- MODULE Spec2Model ----
(***************************************************************************)
(* Verification model of the blockchain exporter: the PollerManager, the   *)
(* two HTTP listeners' lifespans, the per-chain poll loop with its worker  *)
(* thread, the metrics registry with its label lifecycle, and the          *)
(* configuration reload.                                                   *)
(***************************************************************************)
EXTENDS Integers, Sequences, FiniteSets, TLC

\* ------------------------------------------------------------------ bounds
\* Number of poll tasks that can be started over one run (task ids 1..MaxTasks).
MaxTasks == 3
\* Number of poll iterations started plus reloads requested over one run.
MaxEvents == 2
\* pool_size of the ConnectionPoolManager (clients kept per RPC URL).
PoolSize == 1

\* ------------------------------------------------------- configured entities
\* A chain identity is the pair (name, rpc_url).
X == <<"X", "u1">>
Y == <<"Y", "u2">>
Chains == {X, Y}
\* A chain whose two contracts list the same embedded account, followed alone.
Z == <<"Z", "u9">>
\* One chain before and after its rpc_url is changed in the configuration file:
\* the name and the chain are the same, the identities differ.
P1 == <<"P", "u7">>
P2 == <<"P", "u8">>
RegistryChains == {P1, P2}

ChainName(c) == c[1]
ChainUrl(c) == c[2]

\* The lists of chains a load of the configuration file can return.
ConfigFiles == {<<X>>, <<X, Y>>}

\* The two FastAPI applications sharing one lifespan.
Apps == {"health", "metrics"}
NoApp == "none"

\* BlockchainConfig.accounts of a chain.
Accounts(c) ==
  IF c \in {X, Z} THEN << [name |-> "A", address |-> "0xa"] >> ELSE << >>

\* BlockchainConfig.contracts of a chain (decimals fixed in the configuration,
\* transfer_lookback_blocks left to the default).
Contracts(c) ==
  IF c = X
    THEN << [name |-> "K", address |-> "0xk", decimals |-> "18",
             accounts |-> << [name |-> "B", address |-> "0xb"] >>] >>
  ELSE IF c = Z
    THEN << [name |-> "K", address |-> "0xk", decimals |-> "18",
             accounts |-> << [name |-> "B", address |-> "0xb"] >>],
            [name |-> "L", address |-> "0xl", decimals |-> "18",
             accounts |-> << [name |-> "B", address |-> "0xb"] >>] >>
  ELSE << >>

DEFAULT_TOKEN_DECIMALS == "0"
DEFAULT_TRANSFER_LOOKBACK_BLOCKS == "5000"

\* The values eth.chain_id can return for a chain's endpoint when the call
\* succeeds, and the marker of a call that raises.
EndpointChainIds(c) ==
  IF c = X THEN {"1", "3"} ELSE IF c = Z THEN {"9"}
  ELSE IF c \in RegistryChains THEN {"7"} ELSE {"2"}
LookupFailed == "failed"
ChainIdAnswers(c) == EndpointChainIds(c) \cup {LookupFailed}

\* None / empty string: falsy in `a or b`.
NoLabel == ""
UNKNOWN == "unknown"
Or(a, b) == IF a # NoLabel THEN a ELSE b

\* Abstract non-zero reading written by a successful collection.
Data == 1

\* ------------------------------------------------------------ partial maps
EmptyMap == [x \in {} |-> 0]
Put(f, k, v) == [x \in (DOMAIN f) \cup {k} |-> IF x = k THEN v ELSE f[x]]
PutAll(f, K, v) == [x \in (DOMAIN f) \cup K |-> IF x \in K THEN v ELSE f[x]]
Drop(f, K) == [x \in (DOMAIN f) \ K |-> f[x]]

SeqToSet(s) == {s[i] : i \in 1..Len(s)}

VARIABLES
  \* PollerManager
  tasks_created, polling_tasks, primary_app,
  \* asyncio tasks running poll_blockchain, and their worker threads
  task_chain, task_status, loop_pc, thread, runtime, consecutive_failures,
  \* metrics registry and the process-wide maps of metrics.py
  gauges, CHAIN_LABEL_CACHE, CHAIN_RESOLVED_IDS, CONFIGURED_BLOCKCHAINS,
  CHAIN_HEALTH_STATUS, CHAIN_LAST_SUCCESS,
  \* context.py
  app_context,
  \* the listeners
  phase, app_state_tasks, reload_monitor,
  \* connection pool
  pools,
  \* bookkeeping about the run
  last_reload, creator, inflight_removed, events,
  \* one poll loop, one call through the retry executor and one transfer-count
  \* window, each followed on its own
  poll_loop, retry_call, chunker,
  \* one ConnectionPoolManager used by several threads, one evaluation of the
  \* health endpoints and one duration string, each followed on its own
  pool_manager, health_check, duration,
  \* the startup path of one listener with the warm poll switched on
  warm_poll,
  \* the polls of one chain followed alone, and the registry written for two
  \* identities that carry the same chain name
  collection, registry

managerVars == <<tasks_created, polling_tasks, primary_app>>
taskVars == <<task_chain, task_status, loop_pc, thread, runtime, consecutive_failures>>
metricVars == <<gauges, CHAIN_LABEL_CACHE, CHAIN_RESOLVED_IDS, CONFIGURED_BLOCKCHAINS,
                CHAIN_HEALTH_STATUS, CHAIN_LAST_SUCCESS>>
appVars == <<phase, app_state_tasks, reload_monitor>>
historyVars == <<last_reload, creator, inflight_removed, events>>
systemVars == <<managerVars, taskVars, metricVars, app_context, appVars, pools, historyVars>>
unitVars == <<poll_loop, retry_call, chunker, pool_manager, health_check, duration, warm_poll,
              collection, registry>>
\* What a step of one unit leaves alone.
exceptPollLoop == <<systemVars, retry_call, chunker, pool_manager, health_check, duration, warm_poll,
  collection, registry>>
exceptRetryCall == <<systemVars, poll_loop, chunker, pool_manager, health_check, duration, warm_poll,
  collection, registry>>
exceptChunker == <<systemVars, poll_loop, retry_call, pool_manager, health_check, duration, warm_poll,
  collection, registry>>
exceptPoolManager == <<systemVars, poll_loop, retry_call, chunker, health_check, duration, warm_poll,
  collection, registry>>
exceptHealthCheck == <<systemVars, poll_loop, retry_call, chunker, pool_manager, duration, warm_poll,
  collection, registry>>
exceptWarmPoll == <<systemVars, poll_loop, retry_call, chunker, pool_manager, health_check, duration,
  collection, registry>>
exceptDuration == <<systemVars, poll_loop, retry_call, chunker, pool_manager, health_check, warm_poll,
  collection, registry>>
exceptCollection == <<systemVars, poll_loop, retry_call, chunker, pool_manager, health_check,
  duration, warm_poll, registry>>
exceptRegistry == <<systemVars, poll_loop, retry_call, chunker, pool_manager, health_check,
  duration, warm_poll, collection>>
vars == <<systemVars, unitVars>>

TaskIds == 1..MaxTasks

\* ------------------------------------------------------------ metrics.py
\* The registry and the maps, bundled so that the helpers compose.
MS == [g |-> gauges, cache |-> CHAIN_LABEL_CACHE, resolved |-> CHAIN_RESOLVED_IDS,
       health |-> CHAIN_HEALTH_STATUS, last |-> CHAIN_LAST_SUCCESS]

ChainMetricLabelState(label) ==
  [chain_id_label |-> label,
   account_balance_labels |-> {},
   contract_balance_labels |-> {},
   contract_transfer_labels |-> {},
   account_token_labels |-> {}]

blockchain_identity(c) == <<ChainName(c), ChainUrl(c)>>

get_cached_chain_id_label(M, c) ==
  IF blockchain_identity(c) \in DOMAIN M.resolved
    THEN M.resolved[blockchain_identity(c)] ELSE NoLabel

\* Series of a gauge family: the family name followed by the label values.
Series(family, labels) == <<family>> \o labels
SeriesOf(families, labelSet) == {Series(f, l) : f \in families, l \in labelSet}

AccountBalanceGauges == {"account_balance_eth", "account_balance_wei"}
ContractBalanceGauges == {"contract_balance_eth", "contract_balance_wei", "contract_token_supply"}
ContractTransferGauges == {"contract_transfer_count"}
AccountTokenGauges == {"account_token_balance", "account_token_balance_raw"}
HeadGauges == {"head_block_number", "head_block_timestamp", "time_since_last_block"}
ResetGauges == HeadGauges \cup
  {"finalized_block_number", "configured_accounts_count", "configured_contracts_count"}
RemovedChainGauges == ResetGauges \cup {"poll_success", "poll_timestamp"}

safe_remove_metric_kept(g, keys) == g
safe_remove_metric(g, keys) == Drop(g, keys)

remove_chain_metrics_for_label(M, c, label) ==
  LET label_tuple == <<ChainName(c), label>> IN
  [M EXCEPT !.g = safe_remove_metric(@, SeriesOf(RemovedChainGauges, {label_tuple})),
            !.health = Drop(@, {label_tuple}),
            !.last = Drop(@, {label_tuple})]

update_chain_label_cache(M, c, state) ==
  [M EXCEPT !.cache = Put(@, blockchain_identity(c), state)]

\* The return value of clear_cached_metrics: whether an entry was popped.
cleared_cached_metrics(M, c) == blockchain_identity(c) \in DOMAIN M.cache

clear_cached_metrics(M, c) ==
  IF ~cleared_cached_metrics(M, c) THEN M
  ELSE
    LET state == M.cache[blockchain_identity(c)]
        M1 == [M EXCEPT !.cache = Drop(@, {blockchain_identity(c)})]
        M2 == remove_chain_metrics_for_label(M1, c, state.chain_id_label)
    IN [M2 EXCEPT !.g = safe_remove_metric(@,
            SeriesOf(AccountBalanceGauges, state.account_balance_labels)
            \cup SeriesOf(ContractBalanceGauges, state.contract_balance_labels)
            \cup SeriesOf(ContractTransferGauges, state.contract_transfer_labels)
            \cup SeriesOf(AccountTokenGauges, state.account_token_labels))]

reset_chain_metrics(M, c, chain_id_label) ==
  LET resolved_label == Or(chain_id_label, Or(get_cached_chain_id_label(M, c), UNKNOWN))
  IN [M EXCEPT !.g = PutAll(@, SeriesOf(ResetGauges, {<<ChainName(c), resolved_label>>}), 0)]

record_poll_success(M, c, chain_id_label) ==
  LET labels == <<ChainName(c), chain_id_label>> IN
  [M EXCEPT !.g = PutAll(@, SeriesOf({"poll_success", "poll_timestamp"}, {labels}), Data),
            !.health = Put(@, labels, TRUE),
            !.last = Put(@, labels, Data)]

\* The value record_poll_failure writes to blockchain_poll_success.
FailureGaugeValue == 0

record_poll_failure(M, c, chain_id_label) ==
  LET resolved_label == Or(chain_id_label, Or(get_cached_chain_id_label(M, c), UNKNOWN))
      labels == <<ChainName(c), resolved_label>>
      M1 == [M EXCEPT !.g = PutAll(@, SeriesOf({"poll_success", "poll_timestamp"}, {labels}),
                                   FailureGaugeValue)]
      M2 == reset_chain_metrics(M1, c, resolved_label)
      M3 == clear_cached_metrics(M2, c)
  IN [M3 EXCEPT !.health = Put(@, labels, FALSE)]

handle_chain_id_update(M, c, new_label) ==
  LET previous == get_cached_chain_id_label(M, c)
      M1 == IF previous = NoLabel THEN M
            ELSE IF cleared_cached_metrics(M, c) THEN clear_cached_metrics(M, c)
            ELSE LET R == remove_chain_metrics_for_label(M, c, previous)
                 IN [R EXCEPT !.health = Drop(@, {<<ChainName(c), previous>>})]
  IN IF previous = new_label THEN M
     ELSE [M1 EXCEPT !.resolved = Put(@, blockchain_identity(c), new_label)]

record_consecutive_failures(M, c, n) ==
  LET resolved_label == Or(get_cached_chain_id_label(M, c), UNKNOWN) IN
  [M EXCEPT !.g = Put(@, <<"poll_consecutive_failures", ChainName(c), resolved_label>>, n)]

\* Installing a bundle as the next values of the registry and the maps.
SetMS(M) ==
  /\ gauges' = M.g
  /\ CHAIN_LABEL_CACHE' = M.cache
  /\ CHAIN_RESOLVED_IDS' = M.resolved
  /\ CHAIN_HEALTH_STATUS' = M.health
  /\ CHAIN_LAST_SUCCESS' = M.last


\* ------------------------------------------------------------ initial state
NoChain == <<"", "">>
IdleThread == [stage |-> "idle", i |-> 0, j |-> 0, result |-> "none"]
NoRuntime == [chain_id_label |-> NoLabel, chain_state |-> ChainMetricLabelState(NoLabel),
              processed |-> {}]
NoContext == [present |-> FALSE, blockchains |-> << >>]
Urls == {ChainUrl(c) : c \in Chains}
EmptyPool == [free |-> 0, active |-> 0]

\* The units before they are followed.
NoPollLoop == [active |-> FALSE, interval_seconds |-> 0, consecutive_failures |-> 0,
               outcomes |-> << >>, targets |-> << >>, elapsed |-> 0, sleep_duration |-> 0,
               poll_failures_recorded |-> 0, collection_failures_recorded |-> 0,
               cancelled_at |-> "none"]
NoRetryCall == [status |-> "off", attempt_limit |-> 0, calls |-> << >>, sleeps |-> << >>,
                rpc_error_total |-> [x \in {} |-> 0], durations |-> << >>,
                last_exception |-> "none"]
NoChunker == [status |-> "off", window |-> <<0, 0>>, ranges |-> << >>, current_chunk_size |-> 0,
              total_logs |-> 0, get_logs_calls |-> << >>, transfer_count |-> 0]
NoPoolManager == [on |-> FALSE, pools |-> [u \in {} |-> << >>], active_counts |-> [u \in {} |-> 0],
                  held |-> {}, clients |-> 0, calls |-> 0]
NoReport == [status |-> "none", code |-> 0, chains |-> {}]
NoReadiness == [asked |-> FALSE, ready |-> FALSE, chains |-> {}]
NoHealthCheck == [on |-> FALSE, configured |-> {}, health |-> [x \in {} |-> FALSE],
                  last_success |-> [x \in {} |-> 0], now |-> 0,
                  report |-> NoReport, readiness |-> NoReadiness]
None == [none |-> TRUE, seconds |-> 0]
NoDuration == [stage |-> "off", value |-> << >>, result |-> None]
\* The registry and the maps before anything is written.
EmptyRegistry == [g |-> EmptyMap, cache |-> EmptyMap, resolved |-> EmptyMap,
                  health |-> EmptyMap, last |-> EmptyMap]
NoCollection == [pos |-> IdleThread, M |-> EmptyRegistry, rt |-> NoRuntime, results |-> << >>]
NoRegistry == [configured |-> NoChain, M |-> EmptyRegistry,
               label |-> [c \in RegistryChains |-> NoLabel],
               owner |-> [g |-> EmptyMap, health |-> EmptyMap, last |-> EmptyMap],
               ops |-> 0, op |-> [kind |-> "none", chain |-> NoChain]]
NoWarmPoll == [stage |-> "off", blockchains |-> << >>, futures |-> [c \in {} |-> "none"],
               not_done |-> {}, clock |-> 0, tasks |-> {}]

SystemInit ==
  /\ tasks_created = FALSE
  /\ polling_tasks = << >>
  /\ primary_app = NoApp
  /\ task_chain = [t \in TaskIds |-> NoChain]
  /\ task_status = [t \in TaskIds |-> "unused"]
  /\ loop_pc = [t \in TaskIds |-> "none"]
  /\ thread = [t \in TaskIds |-> IdleThread]
  /\ runtime = [t \in TaskIds |-> NoRuntime]
  /\ consecutive_failures = [t \in TaskIds |-> 0]
  /\ gauges = PutAll(EmptyMap, {<<"up">>, <<"configured_blockchains">>, <<"poller_thread_count">>}, 0)
  /\ CHAIN_LABEL_CACHE = EmptyMap
  /\ CHAIN_RESOLVED_IDS = EmptyMap
  /\ CONFIGURED_BLOCKCHAINS = {}
  /\ CHAIN_HEALTH_STATUS = EmptyMap
  /\ CHAIN_LAST_SUCCESS = EmptyMap
  /\ app_context = NoContext
  /\ phase = [a \in Apps |-> "init"]
  /\ app_state_tasks = [a \in Apps |-> << >>]
  /\ reload_monitor = NoApp
  /\ pools = [u \in Urls |-> EmptyPool]
  /\ last_reload = [failed_at |-> "never", repeated |-> FALSE]
  /\ creator = NoApp
  /\ inflight_removed = {}
  /\ events = 0

Init ==
  /\ SystemInit
  /\ poll_loop = NoPollLoop
  /\ retry_call = NoRetryCall
  /\ chunker = NoChunker
  /\ pool_manager = NoPoolManager
  /\ health_check = NoHealthCheck
  /\ duration = NoDuration
  /\ collection = NoCollection
  /\ registry = NoRegistry
  /\ warm_poll = NoWarmPoll

\* ------------------------------------------------------------ connection pool
\* return_client called n times for one URL.
return_client(pool, n) ==
  [free |-> IF pool.free + n < PoolSize THEN pool.free + n
            ELSE IF pool.free < PoolSize THEN PoolSize ELSE pool.free,
   active |-> IF pool.active > n THEN pool.active - n ELSE 0]

clear_pool == [u \in Urls |-> EmptyPool]

\* ------------------------------------------------------------ asyncio tasks
UsedTasks == {t \in TaskIds : task_status[t] # "unused"}
TaskDone(t) == task_status[t] = "cancelled"
LiveTasks == {t \in TaskIds : task_status[t] = "running"}

\* Task ids handed to the tasks asyncio.create_task starts for a list of chains.
NewTaskIds(blockchains) ==
  [k \in 1..Len(blockchains) |-> Cardinality(UsedTasks) + k]

\* task.cancel() on a set of tasks: each task ends as cancelled at its current
\* await; a task awaiting its collection runs the finally block that returns
\* the client, and the worker thread keeps running.
Returning(T, u) == {t \in T : loop_pc[t] = "collecting" /\ ChainUrl(task_chain[t]) = u}

CancelAndSpawn(T, newIds, blockchains) ==
  LET spawned == {newIds[k] : k \in 1..Len(newIds)}
      chainOf(t) == blockchains[CHOOSE k \in 1..Len(newIds) : newIds[k] = t]
  IN
  /\ task_status' = [t \in TaskIds |-> IF t \in T THEN "cancelled"
                                       ELSE IF t \in spawned THEN "running"
                                       ELSE task_status[t]]
  /\ task_chain' = [t \in TaskIds |-> IF t \in spawned THEN chainOf(t) ELSE task_chain[t]]
  /\ loop_pc' = [t \in TaskIds |-> IF t \in T THEN "none"
                                   ELSE IF t \in spawned THEN "ready"
                                   ELSE loop_pc[t]]
  /\ thread' = [t \in TaskIds |-> IF t \in T /\ thread[t].stage = "done"
                                   THEN IdleThread ELSE thread[t]]
  /\ pools' = [u \in Urls |-> return_client(pools[u], Cardinality(Returning(T, u)))]
  /\ consecutive_failures' = [t \in TaskIds |-> IF t \in T THEN 0 ELSE consecutive_failures[t]]
  /\ UNCHANGED runtime

\* ------------------------------------------------------------ PollerManager
should_cleanup_any(app) == tasks_created
should_cleanup(app) == tasks_created /\ primary_app = app

\* create_tasks starts tasks only when none were created before.
CreatesTasks_always == TRUE
CreatesTasks == ~tasks_created

\* The list create_tasks returns.
create_tasks_result(blockchains) ==
  IF CreatesTasks THEN NewTaskIds(blockchains) ELSE polling_tasks

create_tasks(blockchains, app) ==
  IF CreatesTasks
    THEN /\ Cardinality(UsedTasks) + Len(blockchains) <= MaxTasks
         /\ tasks_created' = TRUE
         /\ primary_app' = app
         /\ polling_tasks' = NewTaskIds(blockchains)
         /\ CancelAndSpawn({}, NewTaskIds(blockchains), blockchains)
    ELSE /\ UNCHANGED managerVars
         /\ UNCHANGED <<taskVars, pools>>

\* ------------------------------------------------------------ listeners
set_configured_blockchains(g, blockchains) ==
  Put(g, <<"configured_blockchains">>, Cardinality(SeqToSet(blockchains)))

update_poller_thread_count(g, n) == Put(g, <<"poller_thread_count">>, n)

\* _lifespan up to the yield. run_servers starts both listeners together, so a
\* listener starts before any listener has begun to shut down.
Startup(app) ==
  /\ phase[app] = "init"
  /\ \A a \in Apps : phase[a] \in {"init", "running"}
  /\ \E cfg \in ConfigFiles :
       LET context == IF app_context.present THEN app_context
                      ELSE [present |-> TRUE, blockchains |-> cfg]
           blockchains == context.blockchains
           g1 == Put(set_configured_blockchains(gauges, blockchains), <<"up">>, 1)
       IN
       /\ app_context' = context
       /\ CONFIGURED_BLOCKCHAINS' = SeqToSet(blockchains)
       /\ gauges' = IF CreatesTasks
                      THEN update_poller_thread_count(g1, Len(blockchains)) ELSE g1
       /\ create_tasks(blockchains, app)
       /\ app_state_tasks' = [app_state_tasks EXCEPT ![app] = create_tasks_result(blockchains)]
  /\ reload_monitor' = IF should_cleanup(app)' THEN app ELSE reload_monitor
  /\ creator' = IF CreatesTasks THEN app ELSE creator
  /\ phase' = [phase EXCEPT ![app] = "running"]
  /\ UNCHANGED <<CHAIN_LABEL_CACHE, CHAIN_RESOLVED_IDS, CHAIN_HEALTH_STATUS,
                 CHAIN_LAST_SUCCESS, last_reload, inflight_removed, events, unitVars>>

\* _lifespan after the yield, for the application that does not own the tasks.
ShutdownNonOwner(app) ==
  /\ phase[app] = "running"
  /\ ~should_cleanup(app)
  /\ phase' = [phase EXCEPT ![app] = "stopped"]
  /\ UNCHANGED <<managerVars, taskVars, metricVars, app_context, app_state_tasks,
                 reload_monitor, pools, historyVars, unitVars>>

\* _lifespan after the yield, for the owner: up to the wait of shutdown_tasks.
ShutdownBegin(app) ==
  /\ phase[app] = "running"
  /\ should_cleanup(app)
  /\ gauges' = Put(gauges, <<"up">>, 0)
  /\ reload_monitor' = NoApp
  /\ polling_tasks' = << >>
  /\ CancelAndSpawn({t \in SeqToSet(polling_tasks) : ~TaskDone(t)}, << >>, << >>)
  /\ phase' = [phase EXCEPT ![app] = IF polling_tasks = << >> THEN "stopping_idle" ELSE "stopping"]
  /\ UNCHANGED <<tasks_created, primary_app, CHAIN_LABEL_CACHE, CHAIN_RESOLVED_IDS,
                 CONFIGURED_BLOCKCHAINS, CHAIN_HEALTH_STATUS, CHAIN_LAST_SUCCESS,
                 app_context, app_state_tasks, historyVars, unitVars>>

\* The registry when shutdown_tasks returns: the thread count is reset unless
\* the manager's task list was empty and the method returned at once.
shutdown_thread_count_kept(g, had_tasks) == g
shutdown_thread_count(g, had_tasks) == IF had_tasks THEN update_poller_thread_count(g, 0) ELSE g

\* The owner's shutdown after shutdown_tasks has returned.
ShutdownFinish(app) ==
  /\ phase[app] \in {"stopping", "stopping_idle"}
  /\ gauges' = shutdown_thread_count(gauges, phase[app] = "stopping")
  /\ app_state_tasks' = [app_state_tasks EXCEPT ![app] = << >>]
  /\ tasks_created' = FALSE
  /\ polling_tasks' = << >>
  /\ primary_app' = NoApp
  /\ app_context' = NoContext
  /\ pools' = clear_pool
  /\ phase' = [phase EXCEPT ![app] = "stopped"]
  /\ UNCHANGED <<taskVars, CHAIN_LABEL_CACHE, CHAIN_RESOLVED_IDS, CONFIGURED_BLOCKCHAINS,
                 CHAIN_HEALTH_STATUS, CHAIN_LAST_SUCCESS, reload_monitor, historyVars,
                 unitVars>>

\* ------------------------------------------------------------ collectors.py
contract_decimals_label(contract, decimals_override) ==
  IF decimals_override # NoLabel THEN decimals_override
  ELSE IF contract.decimals # NoLabel THEN contract.decimals
  ELSE DEFAULT_TOKEN_DECIMALS

ContractFlag(is_contract) == IF is_contract THEN "1" ELSE "0"

\* runtime.account_labels(account).as_tuple()
account_labels(c, label, account) == <<ChainName(c), label, account.name, account.address>>
\* runtime.contract_labels(contract).as_tuple()
contract_labels(c, label, contract) == <<ChainName(c), label, contract.name, contract.address>>

token_labels(c, label, contract, decimals_label, account, is_contract) ==
  <<ChainName(c), label, contract.name, contract.address, decimals_label,
    account.name, account.address, ContractFlag(is_contract)>>

\* A step of the collection works on the pair (registry bundle, runtime).
clear_token_metrics_for_account(M, rt, c, account, is_contract) ==
  LET labels == {token_labels(c, rt.chain_id_label, Contracts(c)[k],
                              contract_decimals_label(Contracts(c)[k], NoLabel),
                              account, is_contract) : k \in 1..Len(Contracts(c))}
  IN [M |-> [M EXCEPT !.g = Drop(@, SeriesOf(AccountTokenGauges, labels))],
      rt |-> [rt EXCEPT !.chain_state.account_token_labels = @ \ labels]]

clear_eth_metrics_for_account(M, c, label, account) ==
  [M EXCEPT !.g = Drop(@, SeriesOf(AccountBalanceGauges,
      {account_labels(c, label, account) \o <<flag>> : flag \in {"0", "1"}}))]

\* One contract of record_contract_balances; outcome "ok" or "rpc_error".
record_contract_balance(M, rt, c, contract, outcome) ==
  LET labels == contract_labels(c, rt.chain_id_label, contract)
      transfer_labels == labels \o <<DEFAULT_TRANSFER_LOOKBACK_BLOCKS>>
      value == IF outcome = "ok" THEN Data ELSE 0
  IN [M |-> [M EXCEPT !.g = PutAll(@, SeriesOf(ContractBalanceGauges, {labels})
                                      \cup SeriesOf(ContractTransferGauges, {transfer_labels}),
                                   value)],
      rt |-> [rt EXCEPT !.chain_state.contract_balance_labels = @ \cup {labels},
                        !.chain_state.contract_transfer_labels = @ \cup {transfer_labels}]]

\* One top-level account of collect_chain_metrics_sync; outcome "eoa",
\* "contract" (get_code returned code) or "fail".
record_account_balance(M, rt, c, account, outcome) ==
  LET is_contract == outcome = "contract"
      metric_labels == account_labels(c, rt.chain_id_label, account) \o <<ContractFlag(is_contract)>>
      value == IF outcome = "fail" THEN 0 ELSE Data
      M1 == [M EXCEPT !.g = PutAll(@, SeriesOf(AccountBalanceGauges, {metric_labels}), value)]
      rt1 == [rt EXCEPT !.chain_state.account_balance_labels = @ \cup {metric_labels},
                        !.processed = @ \cup {account.address}]
  IN clear_token_metrics_for_account(M1, rt1, c, account, is_contract)

record_contract_account_token_balance_zero(M, rt, c, contract, account, is_contract, decimals_label) ==
  LET labels == token_labels(c, rt.chain_id_label, contract, decimals_label, account, is_contract)
  IN [M |-> [M EXCEPT !.g = PutAll(@, SeriesOf(AccountTokenGauges, {labels}), 0)],
      rt |-> [rt EXCEPT !.chain_state.account_token_labels = @ \cup {labels}]]

\* balanceOf succeeded: the series carries the contract's decimals.
\* balanceOf failed: `decimals` is not yet bound, the fallback label is the default.
record_contract_account_token_balance(M, rt, c, contract, account, is_contract, balance_ok) ==
  IF balance_ok
    THEN LET labels == token_labels(c, rt.chain_id_label, contract,
                                    contract_decimals_label(contract, contract.decimals),
                                    account, is_contract)
         IN [M |-> [M EXCEPT !.g = PutAll(@, SeriesOf(AccountTokenGauges, {labels}), Data)],
             rt |-> [rt EXCEPT !.chain_state.account_token_labels = @ \cup {labels}]]
    ELSE record_contract_account_token_balance_zero(M, rt, c, contract, account, is_contract,
           contract_decimals_label(contract, DEFAULT_TOKEN_DECIMALS))

\* One embedded account of record_additional_contract_accounts; outcome
\* "rpc_error" (get_code failed), "token_ok" or "token_fail" (get_code answered
\* an externally owned account, balanceOf succeeded or failed). An exception
\* other than RpcError (outcome "raise" of the step) leaves the function after
\* clear_eth_metrics_for_account.
record_additional_contract_account(M, rt, c, contract, account, outcome) ==
  LET M1 == clear_eth_metrics_for_account(M, c, rt.chain_id_label, account)
      rt1 == [rt EXCEPT !.processed = @ \cup {account.address}]
  IN IF outcome = "rpc_error"
       THEN LET z == record_contract_account_token_balance_zero(M1, rt1, c, contract, account,
                       FALSE, contract_decimals_label(contract, NoLabel))
            IN [M |-> clear_eth_metrics_for_account(z.M, c, rt.chain_id_label, account),
                rt |-> z.rt]
       ELSE record_contract_account_token_balance(M1, rt1, c, contract, account, FALSE,
                                                  outcome = "token_ok")

\* ------------------------------------------------------------ collect.py
\* Position of the worker thread inside collect_chain_metrics_sync.
Pos(stage, i, j) == [stage |-> stage, i |-> i, j |-> j, result |-> "none"]
CommitPos == Pos("commit", 0, 0)

RECURSIVE ExtraFrom(_, _, _, _)
ExtraFrom(c, i, j, processed) ==
  IF i > Len(Contracts(c)) THEN CommitPos
  ELSE IF j > Len(Contracts(c)[i].accounts) THEN ExtraFrom(c, i + 1, 1, processed)
  ELSE IF Contracts(c)[i].accounts[j].address \in processed THEN ExtraFrom(c, i, j + 1, processed)
  ELSE Pos("extra", i, j)

AccountFrom(c, i, processed) ==
  IF i <= Len(Accounts(c)) THEN Pos("account", i, 0) ELSE ExtraFrom(c, 1, 1, processed)

ContractFrom_skipped(c, i) == AccountFrom(c, 1, {})
ContractFrom(c, i) ==
  IF i <= Len(Contracts(c)) THEN Pos("contract", i, 0) ELSE AccountFrom(c, 1, {})

\* The end of a collection: the result reaches the poll loop only if its task
\* has not been cancelled meanwhile.
ThreadEnd(t, result) ==
  IF task_status[t] = "running"
    THEN [stage |-> "done", i |-> 0, j |-> 0, result |-> result]
    ELSE IdleThread

\* update_chain_label_cache followed by record_poll_success.
CommitIteration(M, rt, c) ==
  record_poll_success(update_chain_label_cache(M, c, rt.chain_state), c,
                      rt.chain_state.chain_id_label)

\* Continue the collection at `next`, committing when nothing is left to collect.
Proceed(t, M, rt, next) ==
  IF next.stage = "commit"
    THEN /\ SetMS(CommitIteration(M, rt, task_chain[t]))
         /\ thread' = [thread EXCEPT ![t] = ThreadEnd(t, "ok")]
         /\ runtime' = [runtime EXCEPT ![t] = NoRuntime]
    ELSE /\ SetMS(M)
         /\ thread' = [thread EXCEPT ![t] = next]
         /\ runtime' = [runtime EXCEPT ![t] = rt]

\* The collection returns False or raises.
Abort(t, M, result) ==
  /\ SetMS(M)
  /\ thread' = [thread EXCEPT ![t] = ThreadEnd(t, result)]
  /\ runtime' = [runtime EXCEPT ![t] = NoRuntime]

\* The answers of the endpoint explored for the calls of one collection.
FinalizedOutcomes == {TRUE}
ContractOutcomes == {"ok", "rpc_error", "raise"}
AccountOutcomes == {"eoa", "fail"}
ExtraOutcomes == {"token_ok", "raise"}

threadFrame == <<managerVars, task_chain, task_status, loop_pc, consecutive_failures,
                 CONFIGURED_BLOCKCHAINS, app_context, appVars, pools, historyVars, unitVars>>

NewRuntime(label) ==
  [chain_id_label |-> label, chain_state |-> ChainMetricLabelState(label), processed |-> {}]

\* _resolve_chain_id_label: the label it returns and the registry it leaves.
\* A cached label is returned without a call to the endpoint; otherwise the
\* endpoint's answer, or "unknown" when the call raises, is recorded and returned.
resolved_label(M, c, answer) ==
  LET cached == get_cached_chain_id_label(M, c)
  IN IF cached # NoLabel THEN cached
     ELSE IF answer # LookupFailed THEN answer ELSE UNKNOWN

resolve_chain_id_label(M, c, answer) ==
  LET cached == get_cached_chain_id_label(M, c)
      label == resolved_label(M, c, answer)
  IN [label |-> label,
      M |-> IF cached # NoLabel THEN M ELSE handle_chain_id_update(M, c, label)]

\* collect_chain_metrics_sync up to the runtime context: is_connected(), then
\* the chain-id label. `answer` is what eth.chain_id returns during this poll.
ConnectStep(t, connected, answer) ==
  /\ thread[t].stage = "connect"
  /\ LET c == task_chain[t]
         r == resolve_chain_id_label(MS, c, answer)
     IN IF ~connected
          THEN Abort(t, record_poll_failure(MS, c, NoLabel), "false")
          ELSE /\ SetMS(r.M)
               /\ thread' = [thread EXCEPT ![t] = Pos("head", 0, 0)]
               /\ runtime' = [runtime EXCEPT ![t] = NewRuntime(r.label)]
  /\ UNCHANGED threadFrame

Connect(t) ==
  \E connected \in BOOLEAN, answer \in ChainIdAnswers(task_chain[t]) :
    ConnectStep(t, connected, answer)

\* What the collection does after a failed head-block call.
HeadFailure(t, M) ==
  Abort(t, record_poll_failure(M, task_chain[t], runtime[t].chain_id_label), "false")

\* _record_chain_health_metrics (get_block("latest"), then get_block("finalized"))
\* and what collect_chain_metrics_sync does with its result.
HeadBlockStep(t, head_ok, finalized_ok) ==
  /\ thread[t].stage = "head"
  /\   LET c == task_chain[t]
           rt == runtime[t]
           labels == <<ChainName(c), rt.chain_id_label>>
           M1 == [MS EXCEPT !.g = PutAll(@, SeriesOf(HeadGauges, {labels}),
                                         IF head_ok THEN Data ELSE 0)]
           M2 == [M1 EXCEPT !.g = Put(@, Series("finalized_block_number", labels),
                                      IF finalized_ok THEN Data ELSE 0)]
       IN IF ~head_ok
            THEN HeadFailure(t, M1)
            ELSE Proceed(t, M2, rt, ContractFrom(c, 1))
  /\ UNCHANGED threadFrame

HeadBlock(t) ==
  \E head_ok \in BOOLEAN, finalized_ok \in FinalizedOutcomes :
    HeadBlockStep(t, head_ok, finalized_ok)

\* record_contract_balances, one contract per step.
ContractStep(t) ==
  /\ thread[t].stage = "contract"
  /\ \E outcome \in ContractOutcomes :
       LET c == task_chain[t]
           i == thread[t].i
           r == record_contract_balance(MS, runtime[t], c, Contracts(c)[i], outcome)
       IN IF outcome = "raise" THEN Abort(t, MS, "raise")
          ELSE Proceed(t, r.M, r.rt, ContractFrom(c, i + 1))
  /\ UNCHANGED threadFrame

\* The loop over blockchain.accounts, one account per step.
AccountStep(t) ==
  /\ thread[t].stage = "account"
  /\ \E outcome \in AccountOutcomes :
       LET c == task_chain[t]
           i == thread[t].i
           r == record_account_balance(MS, runtime[t], c, Accounts(c)[i], outcome)
       IN Proceed(t, r.M, r.rt, AccountFrom(c, i + 1, r.rt.processed))
  /\ UNCHANGED threadFrame

\* record_additional_contract_accounts, one embedded account per step.
ExtraAccountStep(t) ==
  /\ thread[t].stage = "extra"
  /\ \E outcome \in ExtraOutcomes :
       LET c == task_chain[t]
           i == thread[t].i
           j == thread[t].j
           contract == Contracts(c)[i]
           r == record_additional_contract_account(MS, runtime[t], c, contract,
                                                   contract.accounts[j], outcome)
       IN IF outcome = "raise"
            THEN Abort(t, clear_eth_metrics_for_account(MS, c, runtime[t].chain_id_label,
                                                        contract.accounts[j]), "raise")
            ELSE Proceed(t, r.M, r.rt, ExtraFrom(c, i, j + 1, r.rt.processed))
  /\ UNCHANGED threadFrame

\* ------------------------------------------------------------ control.py
loopFrame == <<managerVars, task_chain, task_status, runtime, CONFIGURED_BLOCKCHAINS,
               app_context, appVars, last_reload, creator, inflight_removed, unitVars>>

\* The tail of one pass of the while loop of poll_blockchain: the failure
\* counter, then record_consecutive_failures under the cached label.
EndOfPass(t, M, failures) ==
  /\ consecutive_failures' = [consecutive_failures EXCEPT ![t] = failures]
  /\ SetMS(record_consecutive_failures(M, task_chain[t], failures))
  /\ loop_pc' = [loop_pc EXCEPT ![t] = "ready"]

\* poll_blockchain from the top of the loop to the await of the collection (the
\* RPC client is built without a call to the endpoint).
IterationStart(t) ==
  /\ task_status[t] = "running"
  /\ loop_pc[t] = "ready"
  /\ events < MaxEvents
  /\ events' = events + 1
  /\ loop_pc' = [loop_pc EXCEPT ![t] = "collecting"]
  /\ thread' = [thread EXCEPT ![t] = Pos("connect", 0, 0)]
  /\ UNCHANGED <<consecutive_failures, gauges, CHAIN_LABEL_CACHE, CHAIN_RESOLVED_IDS,
                 CHAIN_HEALTH_STATUS, CHAIN_LAST_SUCCESS, loopFrame, pools>>

\* poll_blockchain from the return of the collection to the sleep.
LoopResume(t) ==
  /\ task_status[t] = "running"
  /\ loop_pc[t] = "collecting"
  /\ thread[t].stage = "done"
  /\ LET c == task_chain[t]
         result == thread[t].result
         M == IF result = "raise" THEN record_poll_failure(MS, c, NoLabel) ELSE MS
     IN /\ EndOfPass(t, M, IF result = "ok" THEN 0 ELSE consecutive_failures[t] + 1)
        /\ pools' = [pools EXCEPT ![ChainUrl(c)] = return_client(@, 1)]
  /\ thread' = [thread EXCEPT ![t] = IdleThread]
  /\ UNCHANGED <<loopFrame, events>>

\* ------------------------------------------------- control.py, one loop alone
\* poll_blockchain of one chain followed pass by pass, the collection reduced
\* to the way it ends and the time the pass took.
MaxPasses == 4

\* SETTINGS.poller.max_failure_backoff_seconds (default).
MAX_FAILURE_BACKOFF_SECONDS == 900
\* determine_poll_interval_seconds of the chain: 10s, the default 5m, and 1h.
PollIntervals == {10, 300, 3600}
\* time.monotonic() - start_time at the end of a pass, in whole seconds.
ElapsedSeconds == {0, 7, 1000}
\* How the awaited collection ends: it returns True or False, or raises
\* RpcError or another exception.
CollectOutcomes == {"true", "false", "rpc_error", "exception"}

Min(a, b) == IF a <= b THEN a ELSE b
Max(a, b) == IF a >= b THEN a ELSE b

RECURSIVE Pow2(_)
Pow2(n) == IF n <= 0 THEN 1 ELSE 2 * Pow2(n - 1)

\* consecutive_failures after a pass that ended with `outcome`.
failures_after_false_only(outcome, n) ==
  IF outcome = "true" THEN 0 ELSE IF outcome = "false" THEN n + 1 ELSE n
failures_after(outcome, n) == IF outcome = "true" THEN 0 ELSE n + 1

\* The ways the awaited collection ends for which a handler of the loop calls
\* record_poll_failure and goes on: RpcError and any other Exception. A False
\* result was recorded by the collection itself; CancelledError is re-raised.
records_poll_failure_false_too(outcome) == outcome \in {"false", "rpc_error", "exception"}
records_poll_failure_cancelled_too(outcome) == outcome \in {"rpc_error", "exception", "cancelled"}
records_poll_failure(outcome) == outcome \in {"rpc_error", "exception"}

\* The ways the collection ends after calling record_poll_failure itself:
\* each of its `return False` follows one call.
collection_records_poll_failure(outcome) == outcome = "false"

\* Where a task can be cancelled: at the await of the collection, inside the
\* try block, and at the await of the sleep, outside of it.
CancelPoints == {"collection", "sleep"}

\* failure_backoff of a pass that leaves n >= 1 consecutive failures.
failure_backoff_uncapped(interval_seconds, n) == interval_seconds * Pow2(n - 1)
failure_backoff(interval_seconds, n) ==
  Min(interval_seconds * Pow2(n - 1), MAX_FAILURE_BACKOFF_SECONDS)

PollLoopInit ==
  /\ SystemInit
  /\ retry_call = NoRetryCall
  /\ chunker = NoChunker
  /\ pool_manager = NoPoolManager
  /\ health_check = NoHealthCheck
  /\ duration = NoDuration
  /\ collection = NoCollection
  /\ registry = NoRegistry
  /\ warm_poll = NoWarmPoll
  /\ \E interval_seconds \in PollIntervals :
       poll_loop = [NoPollLoop EXCEPT !.active = TRUE, !.interval_seconds = interval_seconds]

\* One pass of the while loop, from start_time to the sleep.
PollPass ==
  /\ poll_loop.active
  /\ Len(poll_loop.outcomes) < MaxPasses
  /\ \E outcome \in CollectOutcomes, elapsed \in ElapsedSeconds :
       LET interval_seconds == poll_loop.interval_seconds
           failures == failures_after(outcome, poll_loop.consecutive_failures)
           target == IF failures > 0 THEN failure_backoff(interval_seconds, failures)
                     ELSE interval_seconds
       IN poll_loop' = [poll_loop EXCEPT !.consecutive_failures = failures,
                                         !.poll_failures_recorded =
                                            IF records_poll_failure(outcome) THEN @ + 1 ELSE @,
                                         !.collection_failures_recorded =
                                            IF collection_records_poll_failure(outcome)
                                              THEN @ + 1 ELSE @,
                                         !.outcomes = Append(@, outcome),
                                         !.targets = Append(@, target),
                                         !.elapsed = elapsed,
                                         !.sleep_duration = Max(target - elapsed, 0)]
  /\ UNCHANGED exceptPollLoop

\* The task is cancelled at the await of the collection or of the sleep:
\* CancelledError is re-raised and the loop ends.
PollCancelledAt(at) ==
  /\ poll_loop.active
  /\ poll_loop.cancelled_at = "none"
  /\ poll_loop' =
       IF at = "collection" /\ records_poll_failure("cancelled")
         THEN [poll_loop EXCEPT !.consecutive_failures = @ + 1,
                                !.poll_failures_recorded = @ + 1,
                                !.cancelled_at = at]
         ELSE [poll_loop EXCEPT !.active = FALSE, !.cancelled_at = at]
  /\ UNCHANGED exceptPollLoop

PollCancelled == \E at \in CancelPoints : PollCancelledAt(at)

PollLoopNext == PollPass \/ PollCancelled

PollLoopSpec == PollLoopInit /\ [][PollLoopNext]_vars

\* ------------------------------------------- collectors.py, one transfer window
\* _collect_contract_transfer_count for one contract and one window, followed
\* one pass of its while loop at a time, and the transfer gauge its caller sets.
MaxChunkCalls == 11

LOG_SPLIT_MIN_BLOCK_SPAN == 1
LOG_MAX_CHUNK_SIZE == 2000
LOG_MIN_CHUNK_SIZE == 100
LOG_TARGET_RESPONSE_SIZE == 5000

\* contract.transfer_lookback_blocks and the head block numbers looked at.
LookbackBlocks == {1, 2100}
LatestBlocks == {0, 100, 2100}
\* _resolve_transfer_lookup_window: (start_block, end_block). The windows are
\* one block, two blocks, 101 blocks and more blocks than one chunk holds.
resolve_transfer_lookup_window(window_span, latest_block_number) ==
  <<Max(0, latest_block_number - window_span), latest_block_number>>
Windows == {resolve_transfer_lookup_window(span, latest) : span \in LookbackBlocks, latest \in LatestBlocks}
\* len(logs) of an answered get_logs: few, or more than the target size.
LogCounts == {1, 5001}
\* How a get_logs call ends: answered, RpcError "response too big", other RpcError.
ChunkOutcomes == {"ok", "too_big", "error"}

\* int(current_chunk_size * LOG_CHUNK_REDUCTION_FACTOR), floored at the minimum.
reduced_chunk_size_unfloored(size) == (size * 3) \div 4
reduced_chunk_size(size) == Max((size * 3) \div 4, LOG_MIN_CHUNK_SIZE)
\* int(current_chunk_size * LOG_CHUNK_GROWTH_FACTOR), capped at the maximum.
grown_chunk_size_uncapped(size) == (size * 5) \div 4
grown_chunk_size(size) == Min((size * 5) \div 4, LOG_MAX_CHUNK_SIZE)

\* The chunk size after an answered chunk with n logs.
adapted_chunk_size(size, n) ==
  IF n > LOG_TARGET_RESPONSE_SIZE THEN Min(size, reduced_chunk_size(size))
  ELSE IF n < LOG_TARGET_RESPONSE_SIZE \div 4 /\ size < LOG_MAX_CHUNK_SIZE
    THEN Max(size, grown_chunk_size(size))
  ELSE size

\* The two ranges appended to the stack for a range cut after block `at`; the
\* lower one is on top.
split_range_upper_on_top(range_start, range_end, at) == << <<range_start, at>>, <<at + 1, range_end>> >>
split_range_overlapping(range_start, range_end, at) == << <<at, range_end>>, <<range_start, at>> >>
split_range(range_start, range_end, at) == << <<at + 1, range_end>>, <<range_start, at>> >>

\* A failed chunk ends the window unless it is "response too big" on a range of
\* more than LOG_SPLIT_MIN_BLOCK_SPAN blocks.
aborts_on_any_failure(outcome, block_span) == TRUE
aborts_only_on_other_errors(outcome, block_span) == outcome # "too_big"
aborts(outcome, block_span) == ~(outcome = "too_big" /\ block_span > LOG_SPLIT_MIN_BLOCK_SPAN)

ChunkerInit ==
  /\ SystemInit
  /\ poll_loop = NoPollLoop
  /\ retry_call = NoRetryCall
  /\ pool_manager = NoPoolManager
  /\ health_check = NoHealthCheck
  /\ duration = NoDuration
  /\ collection = NoCollection
  /\ registry = NoRegistry
  /\ warm_poll = NoWarmPoll
  /\ \E window \in Windows :
       chunker = [NoChunker EXCEPT !.status = "running", !.window = window,
                                   !.ranges = <<window>>,
                                   !.current_chunk_size = LOG_MAX_CHUNK_SIZE]

TopRange == chunker.ranges[Len(chunker.ranges)]
Popped == SubSeq(chunker.ranges, 1, Len(chunker.ranges) - 1)
BlockSpan(range) == range[2] - range[1] + 1

\* A pass that issues no call: an empty range is dropped, a range longer than
\* the current chunk size is cut at the chunk size.
SplitRange ==
  /\ chunker.status = "running"
  /\ chunker.ranges # << >>
  /\ TopRange[1] > TopRange[2] \/ BlockSpan(TopRange) > chunker.current_chunk_size
  /\ chunker' = [chunker EXCEPT !.ranges =
       IF TopRange[1] > TopRange[2] THEN Popped
       ELSE Popped \o split_range(TopRange[1], TopRange[2],
                                  TopRange[1] + chunker.current_chunk_size - 1)]
  /\ UNCHANGED exceptChunker

\* A pass that calls get_logs for the range on top of the stack.
QueryChunkStep(outcome, n) ==
  /\ chunker.status = "running"
  /\ chunker.ranges # << >>
  /\ TopRange[1] <= TopRange[2] /\ BlockSpan(TopRange) <= chunker.current_chunk_size
  /\ Len(chunker.get_logs_calls) < MaxChunkCalls
  /\   LET range_start == TopRange[1]
           range_end == TopRange[2]
           block_span == BlockSpan(TopRange)
           logs == IF outcome = "ok" THEN n ELSE 0
           call == [from |-> range_start, to |-> range_end, result |-> outcome, logs |-> logs]
           new_chunk_size == reduced_chunk_size(chunker.current_chunk_size)
           halves == IF block_span > new_chunk_size
                       THEN split_range(range_start, range_end, range_start + new_chunk_size - 1)
                       ELSE split_range(range_start, range_end,
                                        range_start + (range_end - range_start) \div 2)
       IN chunker' =
            IF outcome = "ok"
              THEN [chunker EXCEPT !.ranges = Popped,
                                   !.get_logs_calls = Append(@, call),
                                   !.total_logs = @ + logs,
                                   !.current_chunk_size = adapted_chunk_size(@, logs)]
            ELSE IF aborts(outcome, block_span)
              THEN [chunker EXCEPT !.status = "unknown",
                                   !.ranges = Popped,
                                   !.get_logs_calls = Append(@, call),
                                   !.transfer_count = 0]
            ELSE [chunker EXCEPT !.ranges = Popped \o halves,
                                 !.get_logs_calls = Append(@, call),
                                 !.current_chunk_size = new_chunk_size]
  /\ UNCHANGED exceptChunker

QueryChunk == \E outcome \in ChunkOutcomes, n \in LogCounts : QueryChunkStep(outcome, n)

\* The stack is empty: total_logs is returned and written to the transfer gauge.
ChunkerReturn ==
  /\ chunker.status = "running"
  /\ chunker.ranges = << >>
  /\ chunker' = [chunker EXCEPT !.status = "returned", !.transfer_count = chunker.total_logs]
  /\ UNCHANGED exceptChunker

ChunkerNext == SplitRange \/ QueryChunk \/ ChunkerReturn

ChunkerSpec == ChunkerInit /\ [][ChunkerNext]_vars

\* ------------------------------------------- connection_pool.py, one manager
\* One ConnectionPoolManager called from several polling threads. Each method
\* body runs under the manager's lock, so a call is one step. A thread returns
\* a client it took with get_client, or one it built itself with
\* create_web3_client, which is what poll_blockchain hands to return_client.
MaxPoolCalls == 5
PoolThreads == {1, 2}

active_count_of(P, rpc_url) ==
  IF rpc_url \in DOMAIN P.active_counts THEN P.active_counts[rpc_url] ELSE 0
pool_of(P, rpc_url) == IF rpc_url \in DOMAIN P.pools THEN P.pools[rpc_url] ELSE << >>

\* _active_counts after return_client: the count of the URL goes down by one
\* when it is above zero.
returned_active_counts_unguarded(P, rpc_url) ==
  Put(P.active_counts, rpc_url, active_count_of(P, rpc_url) - 1)
returned_active_counts(P, rpc_url) ==
  IF active_count_of(P, rpc_url) > 0
    THEN Put(P.active_counts, rpc_url, active_count_of(P, rpc_url) - 1)
    ELSE P.active_counts

PoolManagerInit ==
  /\ SystemInit
  /\ poll_loop = NoPollLoop
  /\ retry_call = NoRetryCall
  /\ chunker = NoChunker
  /\ health_check = NoHealthCheck
  /\ duration = NoDuration
  /\ collection = NoCollection
  /\ registry = NoRegistry
  /\ warm_poll = NoWarmPoll
  /\ pool_manager = [NoPoolManager EXCEPT !.on = TRUE]

\* get_client: the last pooled client of the URL, or a new one.
GetClient(th, rpc_url) ==
  /\ pool_manager.on
  /\ pool_manager.calls < MaxPoolCalls
  /\ LET pool == pool_of(pool_manager, rpc_url)
         reuse == pool # << >>
         client == IF reuse THEN pool[Len(pool)] ELSE pool_manager.clients + 1
     IN pool_manager' =
          [pool_manager EXCEPT
             !.pools = IF reuse THEN Put(@, rpc_url, SubSeq(pool, 1, Len(pool) - 1)) ELSE @,
             !.active_counts = Put(@, rpc_url, active_count_of(pool_manager, rpc_url) + 1),
             !.clients = IF reuse THEN @ ELSE @ + 1,
             !.held = @ \cup {<<th, rpc_url, client>>},
             !.calls = @ + 1]
  /\ UNCHANGED exceptPoolManager

\* return_client of `client` for the URL, by a thread that holds it or not.
pool_return_client(P, rpc_url, client) ==
  LET pool == pool_of(P, rpc_url)
  IN [P EXCEPT
        !.active_counts = returned_active_counts(P, rpc_url),
        !.pools = Put(@, rpc_url, IF Len(pool) < PoolSize THEN Append(pool, client) ELSE pool)]

ReturnClient(th, rpc_url) ==
  /\ pool_manager.on
  /\ pool_manager.calls < MaxPoolCalls
  /\ \E h \in pool_manager.held :
       /\ h[1] = th /\ h[2] = rpc_url
       /\ pool_manager' = [pool_return_client(pool_manager, rpc_url, h[3]) EXCEPT
                             !.held = @ \ {h}, !.calls = @ + 1]
  /\ UNCHANGED exceptPoolManager

\* return_client of a client that did not come from get_client.
ReturnOwnClient(th, rpc_url) ==
  /\ pool_manager.on
  /\ pool_manager.calls < MaxPoolCalls
  /\ pool_manager' = [pool_return_client(pool_manager, rpc_url, pool_manager.clients + 1) EXCEPT
                        !.clients = @ + 1, !.calls = @ + 1]
  /\ UNCHANGED exceptPoolManager

\* clear_pool(rpc_url): the pool and the count of the URL are deleted; clients
\* handed out earlier stay with their threads.
ClearPool(rpc_url) ==
  /\ pool_manager.on
  /\ pool_manager.calls < MaxPoolCalls
  /\ pool_manager' = [pool_manager EXCEPT !.pools = Drop(@, {rpc_url}),
                                          !.active_counts = Drop(@, {rpc_url}),
                                          !.calls = @ + 1]
  /\ UNCHANGED exceptPoolManager

\* clear_pool(): every pool and count is deleted.
ClearAllPools ==
  /\ pool_manager.on
  /\ pool_manager.calls < MaxPoolCalls
  /\ pool_manager' = [pool_manager EXCEPT !.pools = [u \in {} |-> << >>],
                                          !.active_counts = [u \in {} |-> 0],
                                          !.calls = @ + 1]
  /\ UNCHANGED exceptPoolManager

PoolManagerNext ==
  \/ \E th \in PoolThreads, rpc_url \in Urls : GetClient(th, rpc_url)
  \/ \E th \in PoolThreads, rpc_url \in Urls : ReturnClient(th, rpc_url)
  \/ \E th \in PoolThreads, rpc_url \in Urls : ReturnOwnClient(th, rpc_url)
  \/ \E rpc_url \in Urls : ClearPool(rpc_url)
  \/ ClearAllPools

PoolManagerSpec == PoolManagerInit /\ [][PoolManagerNext]_vars

\* ------------------------------------------------------------ health.py
\* SETTINGS.health.readiness_stale_threshold_seconds (default).
READINESS_STALE_THRESHOLD_SECONDS == 300
HTTP_200_OK == 200
HTTP_503_SERVICE_UNAVAILABLE == 503

\* status code of "degraded".
degraded_status_code_unavailable == HTTP_503_SERVICE_UNAVAILABLE
degraded_status_code == HTTP_200_OK

\* generate_health_report over the configured set and the chain_health map. The
\* entries of the chain list are kept as a set; their order is the sort order
\* of the keys.
generate_health_report(configured, health) ==
  IF configured = {} THEN [status |-> "ok", code |-> HTTP_200_OK, chains |-> {}]
  ELSE IF DOMAIN health = {}
    THEN [status |-> "initializing", code |-> HTTP_503_SERVICE_UNAVAILABLE, chains |-> {}]
  ELSE
    LET any_success == \E k \in DOMAIN health : health[k]
        all_success == \A k \in DOMAIN health : health[k]
        chain_details == {[blockchain |-> k[1], chain_id |-> k[2],
                           status |-> IF health[k] THEN "ok" ELSE "unhealthy"] : k \in DOMAIN health}
    IN IF all_success THEN [status |-> "ok", code |-> HTTP_200_OK, chains |-> chain_details]
       ELSE IF any_success
         THEN [status |-> "degraded", code |-> degraded_status_code, chains |-> chain_details]
       ELSE [status |-> "unhealthy", code |-> HTTP_503_SERVICE_UNAVAILABLE,
             chains |-> chain_details]

\* generate_readiness_report at time `now`.
generate_readiness_report(configured, health, last_success, now) ==
  IF configured = {} THEN [asked |-> TRUE, ready |-> TRUE, chains |-> {}]
  ELSE IF DOMAIN health = {} THEN [asked |-> TRUE, ready |-> FALSE, chains |-> {}]
  ELSE
    LET threshold == now - READINESS_STALE_THRESHOLD_SECONDS
        is_recent(k) == k \in DOMAIN last_success /\ last_success[k] >= threshold
        ready(k) == health[k] /\ is_recent(k)
    IN [asked |-> TRUE,
        ready |-> \E k \in DOMAIN health : ready(k),
        chains |-> {[blockchain |-> k[1], chain_id |-> k[2],
                     status |-> IF ready(k) THEN "ready" ELSE "not_ready"] : k \in DOMAIN health}]

\* (name, chain id label) keys of the health maps, and the times looked at:
\* the probe is answered at 1000; 100 is stale, 700 is exactly the threshold.
HealthKeys == {<<ChainName(X), "1">>, <<ChainName(X), UNKNOWN>>, <<ChainName(Y), "2">>}
ProbeTime == 1000
SuccessTimes == {100, 700, 900}
PartialMaps(K, V) == UNION {[D -> V] : D \in SUBSET K}

HealthInit ==
  /\ SystemInit
  /\ poll_loop = NoPollLoop
  /\ retry_call = NoRetryCall
  /\ chunker = NoChunker
  /\ pool_manager = NoPoolManager
  /\ duration = NoDuration
  /\ collection = NoCollection
  /\ registry = NoRegistry
  /\ warm_poll = NoWarmPoll
  /\ \E configured \in SUBSET Chains, health \in PartialMaps(HealthKeys, BOOLEAN),
        last_success \in PartialMaps(HealthKeys, SuccessTimes) :
       health_check = [NoHealthCheck EXCEPT !.on = TRUE, !.configured = configured,
                                            !.health = health, !.last_success = last_success,
                                            !.now = ProbeTime]

\* GET /health
Health ==
  /\ health_check.on
  /\ health_check.report = NoReport
  /\ health_check' = [health_check EXCEPT
       !.report = generate_health_report(health_check.configured, health_check.health)]
  /\ UNCHANGED exceptHealthCheck

\* GET /health/readyz
Readyz ==
  /\ health_check.on
  /\ ~health_check.readiness.asked
  /\ health_check' = [health_check EXCEPT
       !.readiness = generate_readiness_report(health_check.configured, health_check.health,
                                               health_check.last_success, health_check.now)]
  /\ UNCHANGED exceptHealthCheck

HealthNext == Health \/ Readyz

HealthSpec == HealthInit /\ [][HealthNext]_vars

\* ------------------------------------------------------------ poller/intervals.py
\* One duration string handed to parse_duration_to_seconds. A string is a
\* sequence of characters over an alphabet that has a member of every class
\* the pattern tells apart.
MaxDurationLen == 3
Whitespace == {" "}
Digits == {"0", "5"}
UnitLetters == {"s", "m", "h", "S", "M", "H"}
DurationChars == {"0", "5", " ", "m", "H", "x"}
DurationStrings == UNION {[1..n -> DurationChars] : n \in 0..MaxDurationLen}

\* First position at or after i whose character is outside the class.
RECURSIVE RunEnd(_, _, _)
RunEnd(value, i, class) ==
  IF i > Len(value) \/ value[i] \notin class THEN i ELSE RunEnd(value, i + 1, class)

\* POLL_INTERVAL_PATTERN.match: ^\s*(\d+)\s*([smhSMH]?)\s*$
POLL_INTERVAL_PATTERN(value) ==
  LET a == RunEnd(value, 1, Whitespace)
      b == RunEnd(value, a, Digits)
      c == RunEnd(value, b, Whitespace)
      d == IF c <= Len(value) /\ value[c] \in UnitLetters THEN c + 1 ELSE c
      e == RunEnd(value, d, Whitespace)
  IN [matched |-> b > a /\ e = Len(value) + 1,
      group1 |-> SubSeq(value, a, b - 1),
      group2 |-> SubSeq(value, c, d - 1)]

DigitValue(ch) == IF ch = "5" THEN 5 ELSE 0

\* int() of a string of decimal digits.
RECURSIVE int(_)
int(digits) ==
  IF digits = << >> THEN 0
  ELSE 10 * int(SubSeq(digits, 1, Len(digits) - 1)) + DigitValue(digits[Len(digits)])

lower(ch) == CASE ch = "S" -> "s" [] ch = "M" -> "m" [] ch = "H" -> "h" [] OTHER -> ch

unit_multipliers == [u \in {"s", "m", "h"} |-> CASE u = "s" -> 1 [] u = "m" -> 60 [] u = "h" -> 3600]

parse_duration_to_seconds(value) ==
  LET match == POLL_INTERVAL_PATTERN(value) IN
  IF ~match.matched THEN None
  ELSE LET amount == int(match.group1)
           unit == IF match.group2 = << >> THEN "s" ELSE lower(match.group2[1])
       IN IF unit \notin DOMAIN unit_multipliers THEN None
          ELSE [none |-> FALSE, seconds |-> amount * unit_multipliers[unit]]

DurationInit ==
  /\ SystemInit
  /\ poll_loop = NoPollLoop
  /\ retry_call = NoRetryCall
  /\ chunker = NoChunker
  /\ pool_manager = NoPoolManager
  /\ health_check = NoHealthCheck
  /\ warm_poll = NoWarmPoll
  /\ collection = NoCollection
  /\ registry = NoRegistry
  /\ \E value \in DurationStrings :
       duration = [stage |-> "given", value |-> value, result |-> None]

ParseDuration ==
  /\ duration.stage = "given"
  /\ duration' = [duration EXCEPT !.stage = "parsed",
                                  !.result = parse_duration_to_seconds(duration.value)]
  /\ UNCHANGED exceptDuration

DurationNext == ParseDuration

DurationSpec == DurationInit /\ [][DurationNext]_vars

\* ------------------------------------------------- app.py, the warm poll
\* _lifespan of one listener from the warm poll to create_tasks, with a clock in
\* seconds that starts when the collections are submitted. The steps of the
\* startup path take no time: the clock advances only while the path is blocked.
MaxWarmTicks == 5
TickSeconds == 10
\* SETTINGS.poller.warm_poll_timeout_seconds (default).
WARM_POLL_TIMEOUT_SECONDS == 30
\* How a warm collection ends: True, False, or an exception.
WarmOutcomes == {"true", "false", "raised"}

WarmChains == SeqToSet(warm_poll.blockchains)
WarmRunning == {c \in WarmChains : warm_poll.futures[c] = "running"}

WarmPollInit ==
  /\ SystemInit
  /\ poll_loop = NoPollLoop
  /\ retry_call = NoRetryCall
  /\ chunker = NoChunker
  /\ pool_manager = NoPoolManager
  /\ health_check = NoHealthCheck
  /\ duration = NoDuration
  /\ collection = NoCollection
  /\ registry = NoRegistry
  /\ \E blockchains \in ConfigFiles \cup {<< >>}, warm_poll_enabled \in BOOLEAN :
       warm_poll = [NoWarmPoll EXCEPT
                      !.stage = IF warm_poll_enabled /\ blockchains # << >>
                                  THEN "submitted" ELSE "skipped",
                      !.blockchains = blockchains,
                      !.futures = [c \in SeqToSet(blockchains) |->
                                     IF warm_poll_enabled THEN "running" ELSE "none"]]

\* collect_chain_metrics_sync of a chain ends in its executor thread.
WarmCollectionEnds(c) ==
  /\ warm_poll.stage \in {"submitted", "waited"}
  /\ c \in WarmRunning
  /\ \E outcome \in WarmOutcomes :
       warm_poll' = [warm_poll EXCEPT !.futures[c] = outcome]
  /\ UNCHANGED exceptWarmPoll

\* concurrent.futures.wait returns: every future is done, or the timeout has
\* passed. future.cancel() does not stop a collection that is running.
WarmWaitReturns ==
  /\ warm_poll.stage = "submitted"
  /\ WarmRunning = {} \/ warm_poll.clock >= WARM_POLL_TIMEOUT_SECONDS
  /\ warm_poll' = [warm_poll EXCEPT !.stage = "waited", !.not_done = WarmRunning]
  /\ UNCHANGED exceptWarmPoll

\* The end of the `with ThreadPoolExecutor(...)` block: the executor is shut
\* down with wait=True, which returns once every submitted collection has ended.
WarmLeaveExecutor ==
  /\ warm_poll.stage = "waited"
  /\ WarmRunning = {}
  /\ warm_poll' = [warm_poll EXCEPT !.stage = "left_executor"]
  /\ UNCHANGED exceptWarmPoll

\* manager.create_tasks: one background poll task per configured chain.
WarmCreateTasks ==
  /\ warm_poll.stage \in {"left_executor", "skipped"}
  /\ warm_poll' = [warm_poll EXCEPT !.stage = "started", !.tasks = WarmChains]
  /\ UNCHANGED exceptWarmPoll

WarmStartupStep == WarmWaitReturns \/ WarmLeaveExecutor \/ WarmCreateTasks

\* Time passes while the startup path waits.
WarmTick ==
  /\ warm_poll.stage \in {"submitted", "waited"}
  /\ ~ENABLED WarmStartupStep
  /\ warm_poll.clock < MaxWarmTicks * TickSeconds
  /\ warm_poll' = [warm_poll EXCEPT !.clock = @ + TickSeconds]
  /\ UNCHANGED exceptWarmPoll

WarmPollNext ==
  \/ \E c \in Chains : WarmCollectionEnds(c)
  \/ WarmWaitReturns
  \/ WarmLeaveExecutor
  \/ WarmCreateTasks
  \/ WarmTick

WarmPollSpec == WarmPollInit /\ [][WarmPollNext]_vars

\* ------------------------------------------- collect.py, the polls of one chain
\* collect_chain_metrics_sync of chain Z, one poll after the other, on a
\* registry of its own.
MaxPolls == 2

\* get_code of a top-level account answers code or none, or the lookup fails.
PollAccountOutcomes == {"eoa", "contract", "fail"}
\* An embedded account: balanceOf answers or fails, get_code raises RpcError,
\* or get_code raises another exception, which leaves the collection.
PollExtraOutcomes == {"token_ok", "token_fail", "rpc_error", "raise"}
\* A contract: its calls are answered, or one raises RpcError.
PollContractOutcomes == {"ok", "rpc_error"}

CollectionInit ==
  /\ SystemInit
  /\ poll_loop = NoPollLoop
  /\ retry_call = NoRetryCall
  /\ chunker = NoChunker
  /\ pool_manager = NoPoolManager
  /\ health_check = NoHealthCheck
  /\ duration = NoDuration
  /\ warm_poll = NoWarmPoll
  /\ registry = NoRegistry
  /\ collection = [NoCollection EXCEPT !.pos = Pos("connect", 0, 0)]

\* The collection goes on at `next`, or commits and returns True.
CollectionProceed(M, rt, next) ==
  IF next.stage = "commit"
    THEN [collection EXCEPT !.M = CommitIteration(M, rt, Z), !.rt = NoRuntime,
                            !.pos = IdleThread, !.results = Append(@, "ok")]
    ELSE [collection EXCEPT !.M = M, !.rt = rt, !.pos = next]

\* The collection returns False after its own record_poll_failure.
CollectionAbort(M) ==
  [collection EXCEPT !.M = M, !.rt = NoRuntime, !.pos = IdleThread,
                     !.results = Append(@, "false")]

\* The collection raises and the handler of the poll loop records the failure.
CollectionRaise(M) ==
  [collection EXCEPT !.M = record_poll_failure(M, Z, NoLabel), !.rt = NoRuntime,
                     !.pos = IdleThread, !.results = Append(@, "raise")]

\* The next pass of the poll loop calls the collection again.
CollectionStart ==
  /\ collection.pos.stage = "idle"
  /\ Len(collection.results) < MaxPolls
  /\ collection' = [collection EXCEPT !.pos = Pos("connect", 0, 0)]
  /\ UNCHANGED exceptCollection

CollectionConnect ==
  /\ collection.pos.stage = "connect"
  /\ \E connected \in BOOLEAN, answer \in ChainIdAnswers(Z) :
       LET r == resolve_chain_id_label(collection.M, Z, answer)
       IN collection' =
            IF ~connected THEN CollectionAbort(record_poll_failure(collection.M, Z, NoLabel))
            ELSE [collection EXCEPT !.M = r.M, !.rt = NewRuntime(r.label),
                                    !.pos = Pos("head", 0, 0)]
  /\ UNCHANGED exceptCollection

CollectionHeadBlock ==
  /\ collection.pos.stage = "head"
  /\ \E head_ok \in BOOLEAN :
       LET rt == collection.rt
           labels == <<ChainName(Z), rt.chain_id_label>>
           M1 == [collection.M EXCEPT !.g = PutAll(@, SeriesOf(HeadGauges, {labels}),
                                                   IF head_ok THEN Data ELSE 0)]
           M2 == [M1 EXCEPT !.g = Put(@, Series("finalized_block_number", labels), Data)]
       IN collection' =
            IF ~head_ok THEN CollectionAbort(record_poll_failure(M1, Z, rt.chain_id_label))
            ELSE CollectionProceed(M2, rt, ContractFrom(Z, 1))
  /\ UNCHANGED exceptCollection

CollectionContract ==
  /\ collection.pos.stage = "contract"
  /\ \E outcome \in PollContractOutcomes :
       LET i == collection.pos.i
           r == record_contract_balance(collection.M, collection.rt, Z, Contracts(Z)[i], outcome)
       IN collection' = CollectionProceed(r.M, r.rt, ContractFrom(Z, i + 1))
  /\ UNCHANGED exceptCollection

CollectionAccount ==
  /\ collection.pos.stage = "account"
  /\ \E outcome \in PollAccountOutcomes :
       LET i == collection.pos.i
           r == record_account_balance(collection.M, collection.rt, Z, Accounts(Z)[i], outcome)
       IN collection' = CollectionProceed(r.M, r.rt, AccountFrom(Z, i + 1, r.rt.processed))
  /\ UNCHANGED exceptCollection

CollectionExtraAccount ==
  /\ collection.pos.stage = "extra"
  /\ \E outcome \in PollExtraOutcomes :
       LET i == collection.pos.i
           j == collection.pos.j
           contract == Contracts(Z)[i]
           r == record_additional_contract_account(collection.M, collection.rt, Z, contract,
                                                   contract.accounts[j], outcome)
       IN collection' =
            IF outcome = "raise"
              THEN CollectionRaise(clear_eth_metrics_for_account(
                     collection.M, Z, collection.rt.chain_id_label, contract.accounts[j]))
              ELSE CollectionProceed(r.M, r.rt, ExtraFrom(Z, i, j + 1, r.rt.processed))
  /\ UNCHANGED exceptCollection

CollectionNext ==
  \/ CollectionStart
  \/ CollectionConnect
  \/ CollectionHeadBlock
  \/ CollectionContract
  \/ CollectionAccount
  \/ CollectionExtraAccount

CollectionSpec == CollectionInit /\ [][CollectionNext]_vars

\* ------------------------------------------- metrics.py, two identities
\* The registry and the maps shared by the two identities of chain P. The
\* configuration file names one of them at a time; a reload that changes the
\* rpc_url replaces the poll task, while the worker thread of the replaced task
\* finishes the collection it is in. registry.label[c] is the chain-id label of
\* the collection c's thread is in (NoLabel when it is in none), registry.owner
\* the identities whose operations wrote each series and each map entry, and
\* registry.op the operation the last step applied.
MaxRegistryOps == 5

RegistryInit ==
  /\ SystemInit
  /\ poll_loop = NoPollLoop
  /\ retry_call = NoRetryCall
  /\ chunker = NoChunker
  /\ pool_manager = NoPoolManager
  /\ health_check = NoHealthCheck
  /\ duration = NoDuration
  /\ warm_poll = NoWarmPoll
  /\ collection = NoCollection
  /\ registry = [NoRegistry EXCEPT !.configured = P1]

\* The series and the map keys the operations write for chain c under a label.
FailureSeries(c, label) ==
  SeriesOf({"poll_success", "poll_timestamp"} \cup ResetGauges, {<<ChainName(c), label>>})
HeadSeries(c, label) ==
  SeriesOf(HeadGauges \cup {"finalized_block_number"}, {<<ChainName(c), label>>})
SuccessSeries(c, label) ==
  SeriesOf({"poll_success", "poll_timestamp"}, {<<ChainName(c), label>>})

\* The writers of the keys of map `after`, once c has written `written`.
Writers(owners, after, c, written) ==
  [k \in DOMAIN after |->
     (IF k \in DOMAIN owners THEN owners[k] ELSE {})
       \cup (IF k \in written THEN {c} ELSE {})]

\* One operation of identity c: the registry it leaves and the keys it wrote.
RegistryApply(kind, c, M, gKeys, mapKeys, lastKeys, label) ==
  [registry EXCEPT
     !.M = M,
     !.label = [@ EXCEPT ![c] = label],
     !.owner = [g |-> Writers(@.g, M.g, c, gKeys),
                health |-> Writers(@.health, M.health, c, mapKeys),
                last |-> Writers(@.last, M.last, c, lastKeys)],
     !.ops = @ + 1,
     !.op = [kind |-> kind, chain |-> c]]

\* The label record_poll_failure writes under.
failure_label(M, c, chain_id_label) ==
  Or(chain_id_label, Or(get_cached_chain_id_label(M, c), UNKNOWN))

\* The start of a collection of the configured identity: is_connected(), then
\* _resolve_chain_id_label, which runs handle_chain_id_update unless a label
\* is cached.
RegistryConnect(c) ==
  /\ registry.configured = c
  /\ registry.label[c] = NoLabel
  /\ registry.ops < MaxRegistryOps
  /\ \E connected \in BOOLEAN, answer \in ChainIdAnswers(c) :
       LET M == registry.M
           r == resolve_chain_id_label(M, c, answer)
           failed == failure_label(M, c, NoLabel)
       IN registry' =
            IF ~connected
              THEN RegistryApply("failure", c, record_poll_failure(M, c, NoLabel),
                                 FailureSeries(c, failed), {<<ChainName(c), failed>>}, {},
                                 NoLabel)
            ELSE RegistryApply(
                   IF get_cached_chain_id_label(M, c) = NoLabel THEN "chain_id_update"
                                                                ELSE "cached_label",
                   c, r.M, {}, {}, {}, r.label)
  /\ UNCHANGED exceptRegistry

\* The rest of a collection of a chain without contracts and accounts: the head
\* block is read and the iteration commits, or the read fails and the
\* collection records the failure. The thread runs whether or not its identity
\* is still configured.
RegistryHeadBlock(c) ==
  /\ registry.label[c] # NoLabel
  /\ registry.ops < MaxRegistryOps
  /\ \E head_ok \in BOOLEAN :
       LET label == registry.label[c]
           labels == <<ChainName(c), label>>
           M1 == [registry.M EXCEPT !.g = PutAll(@, SeriesOf(HeadGauges, {labels}),
                                                 IF head_ok THEN Data ELSE 0)]
           M2 == [M1 EXCEPT !.g = Put(@, Series("finalized_block_number", labels), Data)]
       IN registry' =
            IF head_ok
              THEN RegistryApply("success", c, CommitIteration(M2, NewRuntime(label), c),
                                 HeadSeries(c, label) \cup SuccessSeries(c, label),
                                 {labels}, {labels}, NoLabel)
            ELSE RegistryApply("failure", c, record_poll_failure(M1, c, label),
                               FailureSeries(c, label), {labels}, {}, NoLabel)
  /\ UNCHANGED exceptRegistry

\* A reload whose file names the chain with the other rpc_url: the configured
\* identity is removed, clear_cached_metrics runs for it, and the poll task of
\* the other identity is started.
RegistryReload ==
  /\ registry.ops < MaxRegistryOps
  /\ LET c == registry.configured
         other == CHOOSE o \in RegistryChains : o # c
         applied == RegistryApply("clear", c, clear_cached_metrics(registry.M, c),
                                  {}, {}, {}, registry.label[c])
     IN registry' = [applied EXCEPT !.configured = other]
  /\ UNCHANGED exceptRegistry

RegistryNext ==
  \/ \E c \in RegistryChains : RegistryConnect(c)
  \/ \E c \in RegistryChains : RegistryHeadBlock(c)
  \/ RegistryReload

RegistrySpec == RegistryInit /\ [][RegistryNext]_vars

\* ------------------------------------------------------------ rpc.py
\* One call of execute_with_retries followed attempt by attempt. Times are in
\* milliseconds; the operation itself takes no time, the sleeps do.
MaxAttempts == 6

\* RPC_INITIAL_BACKOFF_SECONDS and RPC_MAX_BACKOFF_SECONDS, in milliseconds.
RPC_INITIAL_BACKOFF_MILLIS == 500
RPC_MAX_BACKOFF_MILLIS == 5000

\* How one invocation of the operation ends: it returns, raises an RpcError of
\* the application (a protocol error or a timeout), or raises another exception.
Succeeded == [raised |-> "nothing", error_type |-> "none"]
OperationFailures ==
  {[raised |-> "RpcError", error_type |-> "rpc_error"],
   [raised |-> "RpcError", error_type |-> "timeout"],
   [raised |-> "ValueError", error_type |-> "value_error"]}
OperationOutcomes == {Succeeded} \cup OperationFailures

\* The attempts of the for loop.
attempt_range_extra(attempt_limit) == 1..(attempt_limit + 1)
attempt_range(attempt_limit) == 1..attempt_limit

\* backoff_seconds after failed attempt number `attempt`.
backoff_uncapped(attempt) == RPC_INITIAL_BACKOFF_MILLIS * Pow2(attempt - 1)
backoff(attempt) == Min(RPC_INITIAL_BACKOFF_MILLIS * Pow2(attempt - 1), RPC_MAX_BACKOFF_MILLIS)

\* _wrap_rpc_exception: an RpcError is kept, anything else is wrapped.
wrap_rpc_exception(outcome) ==
  IF outcome.raised = "RpcError" THEN "RpcError" ELSE "RpcError(wrapped)"

\* record_rpc_error: one increment of the counter of the error type.
record_rpc_error(total, error_type) ==
  [x \in (DOMAIN total) \cup {error_type} |->
     IF x = error_type THEN (IF x \in DOMAIN total THEN total[x] ELSE 0) + 1 ELSE total[x]]

RECURSIVE SumSeq(_)
SumSeq(q) == IF q = << >> THEN 0 ELSE q[1] + SumSeq(Tail(q))

RetryInit ==
  /\ SystemInit
  /\ poll_loop = NoPollLoop
  /\ chunker = NoChunker
  /\ pool_manager = NoPoolManager
  /\ health_check = NoHealthCheck
  /\ duration = NoDuration
  /\ collection = NoCollection
  /\ registry = NoRegistry
  /\ warm_poll = NoWarmPoll
  /\ \E attempt_limit \in 1..MaxAttempts :
       retry_call = [NoRetryCall EXCEPT !.status = "running", !.attempt_limit = attempt_limit]

\* One pass of the for loop: the operation is invoked; a result is returned
\* after the duration is observed; a failure is counted and followed by a
\* sleep, or by the raise after the loop when it was the last attempt.
RetryAttempt ==
  /\ retry_call.status = "running"
  /\ \E outcome \in OperationOutcomes :
       LET attempt == Len(retry_call.calls) + 1
           more == attempt + 1 \in attempt_range(retry_call.attempt_limit)
       IN /\ attempt \in attempt_range(retry_call.attempt_limit)
          /\ retry_call' =
               IF outcome = Succeeded
                 THEN [retry_call EXCEPT !.status = "returned",
                                         !.calls = Append(@, outcome),
                                         !.durations = Append(@, SumSeq(retry_call.sleeps))]
                 ELSE [retry_call EXCEPT !.status = IF more THEN "running" ELSE "raised",
                                         !.calls = Append(@, outcome),
                                         !.last_exception = wrap_rpc_exception(outcome),
                                         !.rpc_error_total = record_rpc_error(@, outcome.error_type),
                                         !.sleeps = IF attempt < retry_call.attempt_limit
                                                      THEN Append(@, backoff(attempt)) ELSE @]
  /\ UNCHANGED exceptRetryCall

RetryNext == RetryAttempt

RetrySpec == RetryInit /\ [][RetryNext]_vars

\* ------------------------------------------------------------ reload.py
Identities(blockchains) == {blockchain_identity(blockchains[k]) : k \in 1..Len(blockchains)}

\* The chains of `blockchains` whose identity is in S, in their order.
SelectChains(blockchains, S) == SelectSeq(blockchains, LAMBDA c : blockchain_identity(c) \in S)

\* clear_cached_metrics for every chain of a set.
RECURSIVE ClearRemoved(_, _)
ClearRemoved(M, S) ==
  IF S = {} THEN M
  ELSE LET c == CHOOSE x \in S : TRUE
       IN ClearRemoved(clear_cached_metrics(M, c), S \ {c})

\* old_blockchains of reload_configuration.
OldBlockchains_empty == << >>
OldBlockchains == app_context.blockchains

\* PollerManager.reload_tasks(old, new, context): the tasks of the removed
\* identities are cancelled and forgotten, one task is started per added chain.
RemovedTasks(old, new) ==
  {t \in SeqToSet(polling_tasks) :
     blockchain_identity(task_chain[t]) \in Identities(old) \ Identities(new)}

AddedChains_all(old, new) == new
AddedChains(old, new) == SelectChains(new, Identities(new) \ Identities(old))

reload_tasks(old, new) ==
  /\ polling_tasks' = SelectSeq(polling_tasks, LAMBDA t : t \notin RemovedTasks(old, new))
                        \o NewTaskIds(AddedChains(old, new))
  /\ CancelAndSpawn(RemovedTasks(old, new), NewTaskIds(AddedChains(old, new)),
                    AddedChains(old, new))
  /\ UNCHANGED <<tasks_created, primary_app>>

ReloadOutcomes == {"ok", "file_not_found", "config_error", "unexpected", "reload_tasks_raises"}
LoadFailures == {"file_not_found", "config_error", "unexpected"}
\* Where a reload gave up: nowhere, while loading, or while reconciling tasks.
FailedAt(outcome) ==
  IF outcome = "ok" THEN "none" ELSE IF outcome \in LoadFailures THEN "load" ELSE "tasks"

\* Per-chain footprint in the registry and the maps.
ChainSeries(g, c) == {k \in DOMAIN g : Len(k) >= 2 /\ k[2] = ChainName(c)}
ChainEntries(f, c) == {l \in DOMAIN f : l[1] = ChainName(c)}
Footprint(M, c) ==
  ChainSeries(M.g, c) \cup ChainEntries(M.health, c) \cup ChainEntries(M.last, c)
    \cup ({blockchain_identity(c)} \cap DOMAIN M.cache)

\* The worker threads a reload leaves running for chains it removed cleanly.
Orphaned(T, M) ==
  {t \in T : thread[t].stage \notin {"idle", "done"} /\ Footprint(M, task_chain[t]) = {}}

\* reload_configuration, run by the reload monitor of the owning listener.
Reload ==
  /\ reload_monitor # NoApp
  /\ events < MaxEvents
  /\ events' = events + 1
  /\ \E outcome \in ReloadOutcomes, new_blockchains \in ConfigFiles :
       LET old_blockchains == OldBlockchains
           removed == {c \in SeqToSet(old_blockchains) :
                         blockchain_identity(c) \in Identities(old_blockchains)
                                                     \ Identities(new_blockchains)}
           M1 == ClearRemoved(MS, removed)
           M2 == [M1 EXCEPT !.g = set_configured_blockchains(@, new_blockchains)]
       IN
       /\ last_reload' = [failed_at |-> FailedAt(outcome),
                           repeated |-> /\ outcome = "ok"
                                        /\ last_reload.failed_at = "none"
                                        /\ new_blockchains = old_blockchains]
       /\ IF outcome \in LoadFailures
            THEN UNCHANGED <<managerVars, taskVars, metricVars, app_context, pools,
                             inflight_removed>>
            ELSE /\ SetMS(M2)
                 /\ CONFIGURED_BLOCKCHAINS' = SeqToSet(new_blockchains)
                 /\ app_context' = [present |-> TRUE, blockchains |-> new_blockchains]
                 /\ IF outcome = "ok"
                      THEN /\ Cardinality(UsedTasks)
                                + Len(AddedChains(old_blockchains, new_blockchains)) <= MaxTasks
                           /\ reload_tasks(old_blockchains, new_blockchains)
                           /\ inflight_removed' =
                                {t \in inflight_removed :
                                   task_chain[t] \notin SeqToSet(new_blockchains)} \cup
                                Orphaned(RemovedTasks(old_blockchains, new_blockchains), M2)
                      ELSE UNCHANGED <<managerVars, taskVars, pools, inflight_removed>>
  /\ UNCHANGED <<appVars, creator, unitVars>>

\* ------------------------------------------------------------ specification
Next ==
  \/ \E app \in Apps : Startup(app)
  \/ \E app \in Apps : ShutdownNonOwner(app)
  \/ \E app \in Apps : ShutdownBegin(app)
  \/ \E app \in Apps : ShutdownFinish(app)
  \/ \E t \in TaskIds : IterationStart(t)
  \/ \E t \in TaskIds : Connect(t)
  \/ \E t \in TaskIds : HeadBlock(t)
  \/ \E t \in TaskIds : ContractStep(t)
  \/ \E t \in TaskIds : AccountStep(t)
  \/ \E t \in TaskIds : ExtraAccountStep(t)
  \/ \E t \in TaskIds : LoopResume(t)
  \/ Reload

Spec == Init /\ [][Next]_vars

TypeOK ==
  /\ tasks_created \in BOOLEAN
  /\ primary_app \in Apps \cup {NoApp}
  /\ \A t \in TaskIds : consecutive_failures[t] \in 0..MaxEvents
  /\ events \in 0..MaxEvents

\* ------------------------------------------------------------ observations
\* A listener's _lifespan goes through its startup in this step.
StartupStep(app) == phase[app] = "init" /\ phase'[app] = "running"
\* A listener's _lifespan enters its finally block in this step.
ShutdownStep(app) == phase[app] = "running" /\ phase'[app] # "running"
\* The tasks asyncio.create_task starts in this step.
Started == {t \in TaskIds : task_status[t] = "unused" /\ task_status'[t] = "running"}
\* The tasks cancelled in this step.
Cancelled == {t \in TaskIds : task_status[t] = "running" /\ task_status'[t] = "cancelled"}
\* The chain-id labels under which a chain has series or health entries.
LabelsInUse(c) ==
  {k[3] : k \in ChainSeries(gauges, c)} \cup {l[2] : l \in ChainEntries(CHAIN_HEALTH_STATUS, c)}
\* An iteration of the chain is between its start and the end of its pass.
IterationInProgress(c) ==
  \E t \in TaskIds : task_chain[t] = c /\ (thread[t].stage # "idle" \/ loop_pc[t] = "collecting")
\* Series of the account, contract and token families.
DataSeries(g) ==
  {k \in DOMAIN g : k[1] \in AccountBalanceGauges \cup ContractBalanceGauges
                             \cup ContractTransferGauges \cup AccountTokenGauges}
\* The chains with a live poll task.
LiveChains == {task_chain[t] : t \in LiveTasks}
LiveTasksOf(c) == {t \in LiveTasks : task_chain[t] = c}

\* ------------------------------------------------------------ C1
\* C1: only the first create_tasks call on the shared manager starts poll
\* tasks, exactly one per chain passed to it; every later call starts no task
\* and returns the manager's task list, which is the list the first call
\* returned as long as no reload has changed it.
C1_CreateTasksIdempotent ==
  [][\A app \in Apps : StartupStep(app) =>
       IF creator = NoApp
         THEN /\ Cardinality(Started) = Len(app_context'.blockchains)
              /\ \A k \in 1..Len(app_context'.blockchains) :
                   Cardinality({t \in Started : task_chain'[t] = app_context'.blockchains[k]}) = 1
              /\ SeqToSet(app_state_tasks'[app]) = Started
              /\ polling_tasks' = app_state_tasks'[app]
         ELSE /\ Started = {}
              /\ polling_tasks' = polling_tasks
              /\ app_state_tasks'[app] = polling_tasks
              /\ last_reload.failed_at = "never"
                   => app_state_tasks'[app] = app_state_tasks[creator]]_vars

\* Both listeners have started, the second one received the first one's tasks.
C1_Witness ==
  /\ \A a \in Apps : phase[a] = "running"
  /\ app_state_tasks["health"] = app_state_tasks["metrics"]
  /\ Len(polling_tasks) = 2
  /\ Cardinality(UsedTasks) = 2

\* ------------------------------------------------------------ C2
\* C2: should_cleanup(app) holds only for the listener whose create_tasks call
\* created the tasks, and holds for it until its shutdown has completed; the
\* creator never changes once set; a listener that is not the creator cancels
\* no task and its shutdown leaves tasks, manager state, application context
\* and connection pools unchanged.
C2_OnlyOwnerCleansUp ==
  [][/\ \A a \in Apps : should_cleanup(a) => creator = a
     /\ \A a \in Apps : should_cleanup(a)' => creator' = a
     /\ \A a \in Apps : (creator = a /\ phase[a] \in {"running", "stopping", "stopping_idle"})
                          => should_cleanup(a)
     /\ creator # NoApp => creator' = creator
     /\ \A a \in Apps : (ShutdownStep(a) /\ creator # a)
                          => /\ Cancelled = {}
                             /\ UNCHANGED <<managerVars, taskVars, app_context, pools>>
     /\ \A a \in Apps : (ShutdownStep(a) /\ creator = a)
                          => \A t \in SeqToSet(polling_tasks) : task_status'[t] = "cancelled"]_vars

\* The non-owner has shut down while the owner and its tasks are still running.
C2_Witness ==
  \E a \in Apps :
    /\ phase[a] = "stopped"
    /\ creator \in Apps \ {a}
    /\ phase[creator] = "running"
    /\ should_cleanup(creator)
    /\ LiveTasks # {}
    /\ \E t \in LiveTasks : thread[t].stage # "idle"

\* ------------------------------------------------------------ C3
\* C3: at no time does one chain have exported series or chain_health entries
\* under two different chain_id labels.
C3_OneLabelPerChain == \A c \in Chains : Cardinality(LabelsInUse(c)) <= 1

\* ------------------------------------------------------------ C4
\* C4: whenever no iteration of a chain is in progress, every gauge series
\* exported for the chain is covered by its label_cache entry: after
\* clear_cached_metrics(chain) no series of the chain would remain.
C4_SeriesCoveredByCache ==
  \A c \in Chains :
    ~IterationInProgress(c) => ChainSeries(clear_cached_metrics(MS, c).g, c) = {}

\* ------------------------------------------------------------ C5
\* C5: an iteration whose head-block call fails writes no contract, account or
\* token series, is reported as failed, and leaves blockchain_poll_success of
\* the chain reading 0.
C5_HeadFailureReadsZero ==
  [][\A t \in TaskIds : HeadBlockStep(t, FALSE, TRUE) =>
       LET c == task_chain[t]
           poll_success == Series("poll_success", <<ChainName(c), runtime[t].chain_id_label>>)
       IN /\ DataSeries(gauges') \subseteq DataSeries(gauges)
          /\ task_status[t] = "running" => thread'[t].result = "false"
          /\ poll_success \in DOMAIN gauges'
          /\ gauges'[poll_success] = 0]_vars

\* ------------------------------------------------------------ C6
\* C6: a reload that fails at any step, the reconciliation of the tasks
\* included, leaves the application context, the configured-chain set and its
\* gauge, the label cache, the exported series and the poll tasks as they were.
C6_FailedReloadChangesNothing ==
  [][(Reload /\ last_reload'.failed_at # "none") =>
       UNCHANGED <<app_context, CONFIGURED_BLOCKCHAINS, gauges, CHAIN_LABEL_CACHE,
                   polling_tasks, task_status, task_chain>>]_vars

\* ------------------------------------------------------------ C7
\* C7: after a successful reload, a chain of the old configuration that is not
\* in the new one has no exported series, no chain_health or chain_last_success
\* entry and no label_cache entry, and configured_blockchains is the number of
\* chains of the new configuration.
C7_RemovedChainLeavesNothing ==
  [][(Reload /\ last_reload'.failed_at = "none") =>
       /\ \A c \in SeqToSet(app_context.blockchains) \ SeqToSet(app_context'.blockchains) :
            Footprint(MS, c)' = {}
       /\ gauges'[<<"configured_blockchains">>] = Len(app_context'.blockchains)]_vars

\* ------------------------------------------------------------ C8
\* C8: after a successful reload the chains with a live poll task are exactly
\* the chains of the new configuration, one task each; the tasks of the removed
\* chains are cancelled and forgotten, each added chain has one new task.
C8_LiveTasksMatchNewConfig ==
  [][(Reload /\ last_reload'.failed_at = "none") =>
       LET old == SeqToSet(app_context.blockchains)
           new == SeqToSet(app_context'.blockchains)
       IN /\ LiveChains' = new
          /\ \A c \in new : Cardinality(LiveTasksOf(c)') = 1
          /\ SeqToSet(polling_tasks') = LiveTasks'
          /\ \A c \in old \ new : LiveTasksOf(c) \subseteq Cancelled
          /\ \A c \in new \ old : LiveTasksOf(c)' \subseteq Started]_vars

\* ------------------------------------------------------------ C9
\* C9: a reload leaves the task of a chain present in both the old and the new
\* configuration alone: the same task is live before and after, no task is
\* started for the chain, and its position in the loop, its
\* consecutive_failures count and the gauge showing it are unchanged.
C9_UnchangedChainKeepsTask ==
  [][Reload =>
       \A c \in SeqToSet(app_context.blockchains) \cap SeqToSet(app_context'.blockchains) :
         /\ LiveTasksOf(c)' = LiveTasksOf(c)
         /\ \A t \in Started \cup Cancelled : task_chain'[t] # c
         /\ \A t \in LiveTasksOf(c) :
              /\ consecutive_failures'[t] = consecutive_failures[t]
              /\ loop_pc'[t] = loop_pc[t]
              /\ thread'[t] = thread[t]
              /\ (t \in SeqToSet(polling_tasks)) = (t \in SeqToSet(polling_tasks'))
         /\ \A k \in ChainSeries(gauges, c) :
              k[1] = "poll_consecutive_failures" => (k \in DOMAIN gauges' /\ gauges'[k] = gauges[k])]_vars

\* A successful reload has removed Y while the task of X, which has failed
\* once, is still the live task of X.
C9_Witness ==
  /\ last_reload.failed_at = "none"
  /\ creator # NoApp /\ phase[creator] = "running"
  /\ \E t \in TaskIds : task_chain[t] = Y /\ task_status[t] = "cancelled"
  /\ \E t \in LiveTasksOf(X) :
       /\ consecutive_failures[t] = 1
       /\ \E k \in ChainSeries(gauges, X) : k[1] = "poll_consecutive_failures" /\ gauges[k] = 1

\* ------------------------------------------------------------ C10
\* C10: once the iteration that was in flight when its chain was removed has
\* finished, and as long as the chain is not configured again, nothing of the
\* chain remains: no series, no label_cache entry, no chain_health and no
\* chain_last_success entry.
C10_InflightIterationLeavesNothing ==
  \A t \in inflight_removed :
    (thread[t].stage = "idle" /\ task_chain[t] \notin CONFIGURED_BLOCKCHAINS)
      => Footprint(MS, task_chain[t]) = {}

\* ------------------------------------------------------------ C11
\* C11: the label of a chain is "unknown" only until a chainId lookup succeeds:
\* when an earlier lookup failed and the endpoint answers chainId during a
\* later iteration, that iteration runs under the resolved id, the recorded
\* label is the resolved id, and nothing is written under "unknown" any more.
C11_UnknownOnlyUntilResolved ==
  [][\A t \in TaskIds : \A id \in EndpointChainIds(task_chain[t]) :
       (ConnectStep(t, TRUE, id) /\ get_cached_chain_id_label(MS, task_chain[t]) = UNKNOWN) =>
         /\ runtime'[t].chain_id_label = id
         /\ get_cached_chain_id_label(MS, task_chain[t])' = id]_vars

\* ------------------------------------------------------------ C12
\* C12: when the endpoint of a chain returns, during a later poll, a chainId
\* different from the one recorded by an earlier poll, the later poll removes
\* the series under the old label and runs under the new label.
C12_ChangedChainIdRelabels ==
  [][\A t \in TaskIds : \A id \in EndpointChainIds(task_chain[t]) :
       LET c == task_chain[t]
           previous == get_cached_chain_id_label(MS, c)
       IN (ConnectStep(t, TRUE, id) /\ previous \in EndpointChainIds(c) \ {id}) =>
            /\ runtime'[t].chain_id_label = id
            /\ \A k \in ChainSeries(gauges', c) : k[3] # previous]_vars

\* ------------------------------------------------------------ C13
\* C13: after a pass that leaves consecutive_failures = n >= 1 the sleep target
\* is min(interval * 2^(n-1), MAX_FAILURE_BACKOFF_SECONDS), with n = 0 it is the
\* interval, and the loop sleeps max(target - elapsed, 0).
C13_BackoffTarget ==
  Len(poll_loop.targets) > 0 =>
    LET n == poll_loop.consecutive_failures
        interval == poll_loop.interval_seconds
        capped == IF interval * 2^(n - 1) < MAX_FAILURE_BACKOFF_SECONDS
                  THEN interval * 2^(n - 1) ELSE MAX_FAILURE_BACKOFF_SECONDS
        target == IF n >= 1 THEN capped ELSE interval
    IN /\ poll_loop.targets[Len(poll_loop.targets)] = target
       /\ poll_loop.sleep_duration =
            IF target > poll_loop.elapsed THEN target - poll_loop.elapsed ELSE 0

\* Three failures in a row at the default interval: the target is capped at
\* 900 seconds and the pass took 7 of them.
C13_Witness ==
  /\ poll_loop.interval_seconds = 300
  /\ poll_loop.consecutive_failures = 3
  /\ poll_loop.targets = <<300, 600, 900>>
  /\ poll_loop.elapsed = 7
  /\ poll_loop.sleep_duration = 893

\* ------------------------------------------------------------ C14
\* The number of failed passes in a row ending with pass p.
RECURSIVE Streak(_, _)
Streak(outcomes, p) ==
  IF p = 0 \/ outcomes[p] = "true" THEN 0 ELSE 1 + Streak(outcomes, p - 1)

\* C14: consecutive_failures grows by exactly one with every pass that returns
\* False or raises, whatever the error, and the first successful pass resets it
\* to 0: the sleep target of every pass is the interval doubled once per failure
\* in a row before it (capped), and the interval itself after a success.
C14_FailuresCountedAlike ==
  /\ poll_loop.consecutive_failures = Streak(poll_loop.outcomes, Len(poll_loop.outcomes))
  /\ \A p \in 1..Len(poll_loop.outcomes) :
       LET k == Streak(poll_loop.outcomes, p)
           doubled == poll_loop.interval_seconds * 2^(k - 1)
       IN poll_loop.targets[p] =
            IF k = 0 THEN poll_loop.interval_seconds
            ELSE IF doubled < MAX_FAILURE_BACKOFF_SECONDS THEN doubled
            ELSE MAX_FAILURE_BACKOFF_SECONDS

\* Three failures of three kinds, then a success, at an interval of 10 seconds.
C14_Witness ==
  /\ poll_loop.interval_seconds = 10
  /\ poll_loop.outcomes = <<"false", "rpc_error", "exception", "true">>
  /\ poll_loop.targets = <<10, 20, 40, 10>>
  /\ poll_loop.consecutive_failures = 0

\* ------------------------------------------------------------ C15
\* C15: after record_poll_failure(chain, label) has returned, whether or not the
\* chain had a label_cache entry, chain_health[(name, label)] is false, the
\* chain has no label_cache entry, and no account, contract, transfer or token
\* series written by an earlier iteration of the chain is exported. (The calls
\* looked at are those made before the iteration has written any such series:
\* is_connected() returned False, or the head-block call failed.)
C15_FailureLeavesNoData ==
  [][\A t \in TaskIds :
       LET c == task_chain[t]
           atConnect == \E answer \in ChainIdAnswers(c) : ConnectStep(t, FALSE, answer)
           atHead == \E finalized_ok \in FinalizedOutcomes : HeadBlockStep(t, FALSE, finalized_ok)
           label == IF atHead THEN runtime[t].chain_id_label
                    ELSE Or(get_cached_chain_id_label(MS, c), UNKNOWN)
       IN (atConnect \/ atHead) =>
            /\ <<ChainName(c), label>> \in DOMAIN CHAIN_HEALTH_STATUS'
            /\ ~CHAIN_HEALTH_STATUS'[<<ChainName(c), label>>]
            /\ blockchain_identity(c) \notin DOMAIN CHAIN_LABEL_CACHE'
            /\ {k \in DataSeries(gauges') : k[2] = ChainName(c)} = {}]_vars

\* ------------------------------------------------------------ C16
\* The attempts of the call that failed, and the sum of a counter over its labels.
FailedAttempts == {i \in 1..Len(retry_call.calls) : retry_call.calls[i] # Succeeded}

RECURSIVE CounterSum(_)
CounterSum(total) ==
  IF DOMAIN total = {} THEN 0
  ELSE LET x == CHOOSE y \in DOMAIN total : TRUE
       IN total[x] + CounterSum([y \in (DOMAIN total) \ {x} |-> total[y]])

\* C16: one call through the retry executor with attempt limit N >= 1 invokes
\* the operation at most N times and never again after a success; every failed
\* attempt increments rpc_error_total exactly once, under its error type; one
\* duration is observed if and only if an attempt succeeded; a call whose N
\* attempts all fail gives N increments, no duration, and raises an RpcError.
C16_RetryAccounting ==
  retry_call.status # "off" =>
    LET N == retry_call.attempt_limit
        calls == retry_call.calls
    IN /\ Len(calls) <= N
       /\ \A i \in 1..Len(calls) : calls[i] = Succeeded => i = Len(calls)
       /\ CounterSum(retry_call.rpc_error_total) = Cardinality(FailedAttempts)
       /\ \A e \in DOMAIN retry_call.rpc_error_total :
            retry_call.rpc_error_total[e] =
              Cardinality({i \in FailedAttempts : calls[i].error_type = e})
       /\ Len(retry_call.durations) = IF FailedAttempts # 1..Len(calls) THEN 1 ELSE 0
       /\ (retry_call.status = "raised") = (Cardinality(FailedAttempts) = N)
       /\ (retry_call.status = "returned") = (FailedAttempts # 1..Len(calls))
       /\ retry_call.status = "raised" =>
            /\ CounterSum(retry_call.rpc_error_total) = N
            /\ retry_call.durations = << >>
            /\ retry_call.last_exception \in {"RpcError", "RpcError(wrapped)"}

\* Three attempts of three kinds have failed and the call has raised.
C16_Witness ==
  /\ retry_call.status = "raised"
  /\ retry_call.attempt_limit = 3
  /\ Len(retry_call.calls) = 3
  /\ DOMAIN retry_call.rpc_error_total = {"rpc_error", "timeout", "value_error"}
  /\ retry_call.last_exception = "RpcError(wrapped)"

\* ------------------------------------------------------------ C17
\* C17: after failed attempt a < N the executor sleeps min(0.5 * 2^(a-1), 5.0)
\* seconds before attempt a + 1, and it does not sleep after the last failed
\* attempt: N failed attempts cause N - 1 sleeps.
C17_RetryBackoff ==
  retry_call.status # "off" =>
    LET N == retry_call.attempt_limit
        failed == Len(retry_call.calls) - (IF retry_call.status = "returned" THEN 1 ELSE 0)
    IN /\ Len(retry_call.sleeps) = IF failed = N THEN N - 1 ELSE failed
       /\ \A a \in 1..Len(retry_call.sleeps) :
            retry_call.sleeps[a] =
              IF RPC_INITIAL_BACKOFF_MILLIS * 2^(a - 1) < RPC_MAX_BACKOFF_MILLIS
                THEN RPC_INITIAL_BACKOFF_MILLIS * 2^(a - 1) ELSE RPC_MAX_BACKOFF_MILLIS

\* Six attempts have failed: five sleeps, the last one capped at 5 seconds.
C17_Witness ==
  /\ retry_call.status = "raised"
  /\ retry_call.attempt_limit = 6
  /\ retry_call.sleeps = <<500, 1000, 2000, 4000, 5000>>

\* The get_logs calls of the window that were answered.
SucceededCalls == {i \in 1..Len(chunker.get_logs_calls) : chunker.get_logs_calls[i].result = "ok"}

RECURSIVE SucceededLogs(_)
SucceededLogs(calls) ==
  IF calls = << >> THEN 0
  ELSE (IF Head(calls).result = "ok" THEN Head(calls).logs ELSE 0) + SucceededLogs(Tail(calls))

\* C18: when the chunker returns a count for a window, the answered get_logs
\* calls are pairwise disjoint, lie inside the window and cover each of its
\* blocks, and the count is the sum of their log counts.
C18_ReturnedCountCoversWindow ==
  chunker.status = "returned" =>
    LET calls == chunker.get_logs_calls
        window == chunker.window
        ok == {i \in 1..Len(calls) : calls[i].result = "ok"}
    IN /\ \A i, j \in ok :
            i # j => calls[i].to < calls[j].from \/ calls[j].to < calls[i].from
       /\ \A i \in ok :
            window[1] <= calls[i].from /\ calls[i].from <= calls[i].to /\ calls[i].to <= window[2]
       /\ \A b \in window[1]..window[2] :
            \E i \in ok : calls[i].from <= b /\ b <= calls[i].to
       /\ chunker.transfer_count = SucceededLogs(calls)

\* A count is returned for a window longer than one chunk after a chunk failed
\* with "response too big" and several chunks were answered.
C18_Witness ==
  /\ chunker.status = "returned"
  /\ BlockSpan(chunker.window) > LOG_MAX_CHUNK_SIZE
  /\ Cardinality(SucceededCalls) >= 3
  /\ \E i \in 1..Len(chunker.get_logs_calls) : chunker.get_logs_calls[i].result = "too_big"
  /\ chunker.transfer_count > 0

\* C19: "response too big" on a chunk of more than one block keeps the window
\* running, sets current_chunk_size to max(100, floor(0.75 * current_chunk_size))
\* and puts back two non-empty ranges that make up the failed range, cut at the
\* new chunk size, or at the midpoint when the range fits the new size.
C19_TooBigShrinksAndRequeues ==
  [][LET calls == chunker'.get_logs_calls
         failed == calls[Len(calls)]
     IN (/\ chunker.status = "running"
         /\ Len(calls) = Len(chunker.get_logs_calls) + 1
         /\ failed.result = "too_big"
         /\ failed.to > failed.from) =>
          LET range_start == failed.from
              range_end == failed.to
              size == IF (3 * chunker.current_chunk_size) \div 4 > 100
                        THEN (3 * chunker.current_chunk_size) \div 4 ELSE 100
              at == IF range_end - range_start + 1 > size THEN range_start + size - 1
                    ELSE range_start + (range_end - range_start) \div 2
              k == Len(chunker.ranges)
          IN /\ chunker'.status = "running"
             /\ chunker'.current_chunk_size = size
             /\ chunker.ranges[k] = <<range_start, range_end>>
             /\ Len(chunker'.ranges) = k + 1
             /\ SubSeq(chunker'.ranges, 1, k - 1) = SubSeq(chunker.ranges, 1, k - 1)
             /\ {chunker'.ranges[k], chunker'.ranges[k + 1]} = {<<range_start, at>>, <<at + 1, range_end>>}
             /\ range_start <= at /\ at + 1 <= range_end]_vars

\* The window is still running after a multi-block chunk failed with "response
\* too big" and the chunk size came down to the floor of 100 blocks.
C19_Witness ==
  /\ chunker.status = "running"
  /\ chunker.get_logs_calls # << >>
  /\ LET last == chunker.get_logs_calls[Len(chunker.get_logs_calls)]
     IN last.result = "too_big" /\ last.to > last.from
  /\ chunker.current_chunk_size = 100
  /\ Len(chunker.ranges) >= 2

\* C20: the window is aborted (result "unknown", transfer gauge 0, no get_logs
\* call after the failed one) exactly when a chunk failed with an error other
\* than "response too big" or a single-block chunk failed with "response too big".
C20_AbortExactlyOnFatalFailure ==
  LET calls == chunker.get_logs_calls
      fatal == {i \in 1..Len(calls) :
                  \/ calls[i].result = "error"
                  \/ calls[i].result = "too_big" /\ calls[i].from = calls[i].to}
  IN /\ (chunker.status = "unknown") <=> (fatal # {})
     /\ \A i \in fatal : i = Len(calls)
     /\ chunker.status = "unknown" => chunker.transfer_count = 0

\* A window is aborted by a single-block chunk that failed with "response too
\* big" after earlier chunks of the window were split.
C20_Witness ==
  /\ chunker.status = "unknown"
  /\ Len(chunker.get_logs_calls) >= 2
  /\ LET last == chunker.get_logs_calls[Len(chunker.get_logs_calls)]
     IN last.result = "too_big" /\ last.from = last.to
  /\ chunker.transfer_count = 0

\* C21: for every RPC URL, whatever the order of get_client and return_client
\* calls of the threads, returns of clients that never came from get_client
\* included, the free list holds at most pool_size clients and the in-use count
\* is not negative.
C21_PoolBounded ==
  /\ \A u \in DOMAIN pool_manager.pools : Len(pool_manager.pools[u]) <= PoolSize
  /\ \A u \in DOMAIN pool_manager.active_counts : pool_manager.active_counts[u] >= 0

\* The free list of a URL is full and its in-use count is 0 after more clients
\* were returned than were taken.
C21_Witness ==
  \E u \in DOMAIN pool_manager.pools :
    /\ Len(pool_manager.pools[u]) = PoolSize
    /\ u \in DOMAIN pool_manager.active_counts
    /\ pool_manager.active_counts[u] = 0
    /\ pool_manager.held = {}
    /\ pool_manager.clients > PoolSize

\* C22: the /health status follows from the configured set and the chain_health
\* map: no configured chain, ok (200); configured chains and an empty map,
\* initializing (503); all entries healthy, ok (200); some but not all healthy,
\* degraded (200); none healthy, unhealthy (503).
C22_HealthStatus ==
  health_check.report # NoReport =>
    LET health == health_check.health
        healthy == {k \in DOMAIN health : health[k]}
        expected ==
          IF health_check.configured = {} THEN <<"ok", 200>>
          ELSE IF DOMAIN health = {} THEN <<"initializing", 503>>
          ELSE IF healthy = DOMAIN health THEN <<"ok", 200>>
          ELSE IF healthy # {} THEN <<"degraded", 200>>
          ELSE <<"unhealthy", 503>>
    IN <<health_check.report.status, health_check.report.code>> = expected

\* /health has answered degraded with chains configured, one entry healthy and
\* one not.
C22_Witness ==
  /\ health_check.report.status = "degraded"
  /\ health_check.configured # {}
  /\ \E k1, k2 \in DOMAIN health_check.health :
       health_check.health[k1] /\ ~health_check.health[k2]

\* C23: readiness is true exactly when no chain is configured, or a chain that
\* is configured now is healthy with a last success no older than the stale
\* threshold; a stale entry, or the entry of a chain that is no longer
\* configured, does not make the service ready. The probe is asked at the time
\* of the latest recorded success, so every recorded success is recent.
C23_ReadyOnlyByConfiguredChain ==
  LET now == Data
      report == generate_readiness_report(CONFIGURED_BLOCKCHAINS, CHAIN_HEALTH_STATUS,
                                          CHAIN_LAST_SUCCESS, now)
      fresh(k) == /\ k \in DOMAIN CHAIN_HEALTH_STATUS
                  /\ CHAIN_HEALTH_STATUS[k]
                  /\ k \in DOMAIN CHAIN_LAST_SUCCESS
                  /\ CHAIN_LAST_SUCCESS[k] >= now - 300
  IN report.ready <=>
       \/ CONFIGURED_BLOCKCHAINS = {}
       \/ \E c \in CONFIGURED_BLOCKCHAINS : \E k \in DOMAIN CHAIN_HEALTH_STATUS :
            k[1] = ChainName(c) /\ fresh(k)

\* C24: a poll task cancelled while it awaits a collection or sleeps ends there:
\* the loop is over and runs no further pass, no record_poll_failure call is
\* made for the cancellation and consecutive_failures is not incremented.
C24_CancellationPropagates ==
  [][/\ \A at \in CancelPoints :
          PollCancelledAt(at) =>
            /\ ~poll_loop'.active
            /\ poll_loop'.cancelled_at = at
            /\ poll_loop'.poll_failures_recorded = poll_loop.poll_failures_recorded
            /\ poll_loop'.consecutive_failures = poll_loop.consecutive_failures
            /\ poll_loop'.outcomes = poll_loop.outcomes
     /\ ~poll_loop.active => poll_loop' = poll_loop]_vars

\* The loop was cancelled at the await of the collection after two failed
\* passes, one of them recorded by the loop.
C24_Witness ==
  /\ ~poll_loop.active
  /\ poll_loop.cancelled_at = "collection"
  /\ poll_loop.consecutive_failures = 2
  /\ poll_loop.poll_failures_recorded = 1

C26_WarmPollNeverBlocksStartup ==
  /\ warm_poll.stage \in {"submitted", "waited", "left_executor"} => warm_poll.clock <= 30
  /\ warm_poll.stage = "started" => warm_poll.tasks = SeqToSet(warm_poll.blockchains)

ListedSeries(c, state) ==
  SeriesOf(RemovedChainGauges, {<<ChainName(c), state.chain_id_label>>})
  \cup SeriesOf(AccountBalanceGauges, state.account_balance_labels)
  \cup SeriesOf(ContractBalanceGauges, state.contract_balance_labels)
  \cup SeriesOf(ContractTransferGauges, state.contract_transfer_labels)
  \cup SeriesOf(AccountTokenGauges, state.account_token_labels)

\* C28: after clear_cached_metrics(c) the label cache has no entry for c's
\* identity and no series the removed entry listed is exported; the call
\* returns true exactly when an entry existed, and a call repeated at once
\* returns false and changes nothing.
C28_ClearCachedMetricsRemovesEntryOnce ==
  \A c \in Chains :
    LET had == blockchain_identity(c) \in DOMAIN CHAIN_LABEL_CACHE
        after == clear_cached_metrics(MS, c)
    IN /\ blockchain_identity(c) \notin DOMAIN after.cache
       /\ had => ListedSeries(c, CHAIN_LABEL_CACHE[blockchain_identity(c)])
                   \cap DOMAIN after.g = {}
       /\ cleared_cached_metrics(MS, c) <=> had
       /\ ~had => after = MS
       /\ ~cleared_cached_metrics(after, c)
       /\ clear_cached_metrics(after, c) = after

\* A chain has a label-cache entry that lists an account series, and both that
\* series and the chain's poll_success series are exported.
C28_Witness ==
  \E c \in Chains :
    /\ blockchain_identity(c) \in DOMAIN CHAIN_LABEL_CACHE
    /\ LET state == CHAIN_LABEL_CACHE[blockchain_identity(c)]
       IN /\ SeriesOf(AccountBalanceGauges, state.account_balance_labels)
               \cap DOMAIN gauges # {}
          /\ Series("poll_success", <<ChainName(c), state.chain_id_label>>) \in DOMAIN gauges
          /\ ListedSeries(c, state) \cap DOMAIN clear_cached_metrics(MS, c).g = {}

\* The duration grammar: digits, an optional unit s, m or h in either case,
\* and optional whitespace before, between and after them.
MatchesDurationGrammar(value) ==
  \E i, j, k, l \in 0..Len(value) :
    /\ i < j /\ j <= k /\ k <= l /\ l <= k + 1
    /\ \A n \in 1..i : value[n] \in Whitespace
    /\ \A n \in (i + 1)..j : value[n] \in Digits
    /\ \A n \in (j + 1)..k : value[n] \in Whitespace
    /\ \A n \in (k + 1)..l : value[n] \in UnitLetters
    /\ \A n \in (l + 1)..Len(value) : value[n] \in Whitespace

\* C29: a number of seconds returned by parse_duration_to_seconds is greater
\* than 0, and a string outside the duration grammar is reported as invalid.
C29_ParsedDurationPositive ==
  duration.stage = "parsed" =>
    /\ ~duration.result.none => duration.result.seconds > 0
    /\ ~MatchesDurationGrammar(duration.value) => duration.result.none

\* The poll iterations that hold an RPC client of a URL: those between the
\* creation of the client and the finally clause that hands it back.
HoldingIterations(rpc_url) ==
  {t \in TaskIds : /\ task_status[t] = "running"
                   /\ loop_pc[t] = "collecting"
                   /\ ChainUrl(task_chain[t]) = rpc_url}

\* C30: for every URL the in-use count of the connection pool equals the
\* number of poll iterations holding a client of that URL, and is 0 when no
\* iteration is running.
C30_PoolInUseCountsHolders ==
  \A rpc_url \in Urls : pools[rpc_url].active = Cardinality(HoldingIterations(rpc_url))

\* Order of the stages of one collection.
StageRank(stage) ==
  CASE stage = "connect" -> 0 [] stage = "head" -> 1 [] stage = "contract" -> 2
    [] stage = "account" -> 3 [] stage = "extra" -> 4 [] OTHER -> 5

\* The series a step sets: new ones and ones whose value it changes.
WrittenSeries == {k \in DOMAIN gauges' : k \notin DOMAIN gauges \/ gauges'[k] # gauges[k]}
WrittenOf(families) == {k \in WrittenSeries : k[1] \in families}

\* C31: within one iteration the stages follow each other as head block,
\* contracts, top-level accounts, embedded accounts; each family of series is
\* written in its own stage; the label set is committed and poll_success set
\* to 1 only by the step that ends a successful collection, after a write for
\* the head block, every contract and every top-level account.
C31_WritesInOrderCommitLast ==
  [][\A t \in TaskIds :
       (thread[t].stage \in {"connect", "head", "contract", "account", "extra"}
        /\ thread'[t] # thread[t]) =>
         LET c == task_chain[t]
             id == blockchain_identity(c)
             stage == thread[t].stage
             ends == thread'[t].stage \in {"done", "idle"}
             commits == \/ /\ id \in DOMAIN CHAIN_LABEL_CACHE'
                            /\ (id \notin DOMAIN CHAIN_LABEL_CACHE
                                \/ CHAIN_LABEL_CACHE'[id] # CHAIN_LABEL_CACHE[id])
                        \/ \E k \in WrittenOf({"poll_success"}) : gauges'[k] = 1
             returns_true == thread'[t].stage = "done" /\ thread'[t].result = "ok"
             complete ==
               LET state == CHAIN_LABEL_CACHE'[id]
                   label == state.chain_id_label
               IN /\ Series("head_block_number", <<ChainName(c), label>>) \in DOMAIN gauges'
                  /\ \A i \in 1..Len(Contracts(c)) :
                       /\ contract_labels(c, label, Contracts(c)[i]) \in state.contract_balance_labels
                       /\ SeriesOf(ContractBalanceGauges, {contract_labels(c, label, Contracts(c)[i])})
                            \subseteq DOMAIN gauges'
                  /\ \A i \in 1..Len(Accounts(c)) :
                       \E flag \in {"0", "1"} :
                         account_labels(c, label, Accounts(c)[i]) \o <<flag>>
                           \in state.account_balance_labels
                  /\ gauges'[Series("poll_success", <<ChainName(c), label>>)] = 1
         IN /\ StageRank(thread'[t].stage) >= StageRank(stage)
            /\ (\E k \in WrittenOf(HeadGauges) : gauges'[k] # 0) => stage = "head"
            /\ WrittenOf(ContractBalanceGauges \cup ContractTransferGauges) # {}
                 => stage = "contract"
            /\ WrittenOf(AccountBalanceGauges) # {} => stage = "account"
            /\ WrittenOf(AccountTokenGauges) # {} => stage = "extra"
            /\ commits => /\ ends
                          /\ thread'[t].stage = "done" => thread'[t].result = "ok"
                          /\ id \in DOMAIN CHAIN_LABEL_CACHE' /\ complete
            /\ returns_true => id \in DOMAIN CHAIN_LABEL_CACHE' /\ complete]_vars

\* A collection of X has returned True after writing contract, account and
\* token series, and its label set is in the label cache.
C31_Witness ==
  \E t \in TaskIds :
    /\ task_chain[t] = X
    /\ thread[t].stage = "done" /\ thread[t].result = "ok"
    /\ blockchain_identity(X) \in DOMAIN CHAIN_LABEL_CACHE
    /\ LET state == CHAIN_LABEL_CACHE[blockchain_identity(X)]
       IN /\ state.contract_balance_labels # {}
          /\ state.account_balance_labels # {}
          /\ state.account_token_labels # {}
          /\ SeriesOf(AccountTokenGauges, state.account_token_labels) \subseteq DOMAIN gauges

\* C33: a successful reload leaves no resolved chain-id label for a chain
\* identity it removed.
C33_ReloadForgetsResolvedIds ==
  [][(Reload /\ last_reload'.failed_at = "none") =>
       \A c \in SeqToSet(app_context.blockchains) \ SeqToSet(app_context'.blockchains) :
         blockchain_identity(c) \notin DOMAIN CHAIN_RESOLVED_IDS']_vars

\* C34: the answered get_logs calls of a window go up block by block: the
\* first starts at the window start and each later one at the block after the
\* end of the answered call before it; no call, answered or failed, starts
\* below a call issued before it.
C34_ChunksInAscendingOrder ==
  LET calls == chunker.get_logs_calls
      ok == SucceededCalls
  IN /\ \A i \in ok :
          LET earlier == {j \in ok : j < i}
          IN IF earlier = {} THEN calls[i].from = chunker.window[1]
             ELSE LET prev == CHOOSE j \in earlier : \A k \in earlier : k <= j
                  IN calls[i].from = calls[prev].to + 1
     /\ \A i, j \in 1..Len(calls) : i < j => calls[i].from <= calls[j].from

\* Three chunks of one window were answered one after the other, a chunk
\* having failed with "response too big" and been split before.
C34_Witness ==
  /\ Cardinality(SucceededCalls) >= 3
  /\ \E i \in 1..Len(chunker.get_logs_calls) :
       /\ chunker.get_logs_calls[i].result = "too_big"
       /\ \E j \in SucceededCalls : j > i
  /\ chunker.get_logs_calls[Len(chunker.get_logs_calls)].from > chunker.window[1]

\* C35: current_chunk_size starts at 2000 and stays between 100 and 2000, and
\* a get_logs call spans at least 1 block and at most the current_chunk_size
\* in force when it is issued.
C35_ChunkSizeWithinBounds ==
  /\ chunker.current_chunk_size = 2000
  /\ [](100 <= chunker.current_chunk_size /\ chunker.current_chunk_size <= 2000)
  /\ [][Len(chunker'.get_logs_calls) = Len(chunker.get_logs_calls) + 1 =>
         LET call == chunker'.get_logs_calls[Len(chunker'.get_logs_calls)]
         IN /\ call.to - call.from + 1 >= 1
            /\ call.to - call.from + 1 <= chunker.current_chunk_size]_vars

\* The chunk size is back at 2000 after "response too big" had brought it
\* down, and the window has been counted.
C35_Witness ==
  /\ chunker.status = "returned"
  /\ chunker.current_chunk_size = 2000
  /\ \E i \in 1..Len(chunker.get_logs_calls) : chunker.get_logs_calls[i].result = "too_big"

\* What is left to do for the ranges on the stack: a range of n blocks can
\* take at most 2n - 1 passes, an empty one takes one.
RECURSIVE RemainingWork(_)
RemainingWork(ranges) ==
  IF ranges = << >> THEN 0
  ELSE (IF BlockSpan(Head(ranges)) >= 1 THEN 2 * BlockSpan(Head(ranges)) - 1 ELSE 1)
       + RemainingWork(Tail(ranges))

\* C39: a chunker invocation ends after finitely many get_logs calls: the two
\* ranges put back after "response too big" are each shorter than the range
\* that failed, and every pass of the loop either ends the invocation or
\* leaves strictly less work on the stack.
C39_ChunkerTerminates ==
  [][chunker.status = "running" /\ chunker' # chunker =>
       /\ chunker'.status = "running" =>
            RemainingWork(chunker'.ranges) < RemainingWork(chunker.ranges)
       /\ (/\ chunker'.status = "running"
           /\ Len(chunker'.get_logs_calls) = Len(chunker.get_logs_calls) + 1
           /\ chunker'.get_logs_calls[Len(chunker'.get_logs_calls)].result = "too_big") =>
            LET k == Len(chunker.ranges)
            IN /\ Len(chunker'.ranges) = k + 1
               /\ \A n \in {k, k + 1} :
                    /\ BlockSpan(chunker'.ranges[n]) >= 1
                    /\ BlockSpan(chunker'.ranges[n]) < BlockSpan(chunker.ranges[k])
                    /\ chunker'.ranges[n] # chunker.ranges[k]]_vars

\* An invocation has ended, by a count or by "unknown", after chunks that
\* were answered, chunks that were split and a chunk that failed otherwise
\* or could not be split further.
C39_Witness ==
  /\ chunker.status \in {"returned", "unknown"}
  /\ \E i, j \in 1..Len(chunker.get_logs_calls) :
       /\ i < j
       /\ chunker.get_logs_calls[i].result = "too_big"
       /\ chunker.get_logs_calls[j].result = "too_big"
  /\ SucceededCalls # {}
  /\ chunker.ranges # << >> => chunker.status = "unknown"

\* C36: a pass whose collection returns False or raises runs record_poll_failure
\* once, inside the collection for False and in the loop for an exception; a
\* pass whose collection returns True does not run it.
C36_FailurePathRunsOnce ==
  [][Len(poll_loop'.outcomes) = Len(poll_loop.outcomes) + 1 =>
       LET outcome == poll_loop'.outcomes[Len(poll_loop'.outcomes)]
           in_loop == poll_loop'.poll_failures_recorded - poll_loop.poll_failures_recorded
           in_collection == poll_loop'.collection_failures_recorded
                              - poll_loop.collection_failures_recorded
       IN /\ in_loop + in_collection = IF outcome = "true" THEN 0 ELSE 1
          /\ outcome = "false" => in_collection = 1
          /\ outcome \in {"rpc_error", "exception"} => in_loop = 1]_vars

\* A loop has made a pass that returned False, one that raised RpcError and
\* one that raised another exception, and the failure path ran three times.
C36_Witness ==
  /\ {"false", "rpc_error", "exception"} \subseteq SeqToSet(poll_loop.outcomes)
  /\ Len(poll_loop.outcomes) = 3
  /\ poll_loop.poll_failures_recorded + poll_loop.collection_failures_recorded = 3

\* C37: every key of CHAIN_HEALTH_STATUS and of CHAIN_LAST_SUCCESS carries the
\* name of a currently configured chain, and no configured chain name has more
\* than one CHAIN_HEALTH_STATUS entry.
C37_HealthKeysOfConfiguredChainsOnly ==
  /\ \A k \in DOMAIN CHAIN_HEALTH_STATUS \cup DOMAIN CHAIN_LAST_SUCCESS :
       \E c \in CONFIGURED_BLOCKCHAINS : ChainName(c) = k[1]
  /\ \A c \in CONFIGURED_BLOCKCHAINS :
       Cardinality({k \in DOMAIN CHAIN_HEALTH_STATUS : k[1] = ChainName(c)}) <= 1

\* The pairs (enabled contract, enabled embedded account) of Z whose account
\* is not a top-level account of the chain.
EmbeddedPairs ==
  {<<i, j>> \in (1..Len(Contracts(Z))) \X (1..2) :
     /\ j <= Len(Contracts(Z)[i].accounts)
     /\ \A a \in 1..Len(Accounts(Z)) :
          Accounts(Z)[a].address # Contracts(Z)[i].accounts[j].address}

\* C32: when a collection returns True, the label set it commits lists, for
\* every contract and every embedded account of it that is not a top-level
\* account, a token-balance series of that contract and account, and the
\* series is exported.
C32_EveryEmbeddedPairWritten ==
  (collection.results # << >> /\ collection.pos.stage = "idle"
   /\ collection.results[Len(collection.results)] = "ok") =>
    \A p \in EmbeddedPairs :
      LET contract == Contracts(Z)[p[1]]
          account == contract.accounts[p[2]]
      IN \E labels \in collection.M.cache[blockchain_identity(Z)].account_token_labels :
           /\ labels[3] = contract.name /\ labels[4] = contract.address
           /\ labels[7] = account.address
           /\ SeriesOf(AccountTokenGauges, {labels}) \subseteq DOMAIN collection.M.g

\* C38: for each top-level account of the chain at most one account-balance
\* series of a family is exported, whatever its is_contract label.
C38_OneBalanceSeriesPerAccount ==
  \A a \in 1..Len(Accounts(Z)), family \in AccountBalanceGauges :
    Cardinality({k \in DOMAIN collection.M.g :
                   /\ k[1] = family
                   /\ k[2] = ChainName(Z)
                   /\ k[5] = Accounts(Z)[a].address}) <= 1

\* The keys of map `before` that chain c never wrote are present in `after`
\* with the value they had.
OthersKept(before, after, owners, c) ==
  \A k \in DOMAIN before :
    c \notin owners[k] => (k \in DOMAIN after /\ after[k] = before[k])

\* C40: a record_poll_failure, clear_cached_metrics or handle_chain_id_update
\* executed for one chain identity leaves every series, every chain_health
\* entry and every chain_last_success entry written only for another identity
\* in place and with its value.
C40_OtherIdentitiesUntouched ==
  [][\A c \in RegistryChains :
       (/\ registry'.ops = registry.ops + 1
        /\ registry'.op.chain = c
        /\ registry'.op.kind \in {"failure", "clear", "chain_id_update"}) =>
         /\ OthersKept(registry.M.g, registry'.M.g, registry.owner.g, c)
         /\ OthersKept(registry.M.health, registry'.M.health, registry.owner.health, c)
         /\ OthersKept(registry.M.last, registry'.M.last, registry.owner.last, c)]_vars

====
